---- MODULE Spec2Model ----
(***************************************************************************)
(* Host runtime core of the drone network simulation: fragment codec,      *)
(* assembler / disassembler, source router and the client / server packet  *)
(* handlers.                                                               *)
(***************************************************************************)
EXTENDS Integers, Sequences, FiniteSets, TLC

(***************************************************************************)
(* Program constants.                                                      *)
(***************************************************************************)
\* wg_2024::packet::FRAGMENT_DSIZE, the size of Fragment.data.
FRAGMENT_DSIZE == 128
\* node.rs: const MEMORY_SIZE, the capacity of a drone's delivery history.
MEMORY_SIZE == 250

(***************************************************************************)
(* Bounds of the model.                                                    *)
(***************************************************************************)
\* Number of handler steps (packets, commands, API calls) of one behaviour.
MaxSteps == 4
\* Largest number of padding characters of a codec input message.
MaxPad == 130
\* Number of times the network drops a fragment of the session.
MaxDrops == 2

(***************************************************************************)
(* Generic helpers.                                                        *)
(***************************************************************************)
Min(a, b) == IF a < b THEN a ELSE b

Range(s) == {s[i] : i \in DOMAIN s}

Reverse(s) == [i \in 1..Len(s) |-> s[Len(s) + 1 - i]]

RECURSIVE Flatten(_)
Flatten(ss) == IF ss = <<>> THEN <<>> ELSE Head(ss) \o Flatten(Tail(ss))

\* The keys of a BTreeMap (a function on a finite set of naturals) ascending.
RECURSIVE SortedKeys(_)
SortedKeys(S) ==
  IF S = {} THEN <<>>
  ELSE LET m == CHOOSE x \in S : \A y \in S : x <= y
       IN <<m>> \o SortedKeys(S \ {m})

\* BTreeMap::values(): the values in ascending key order.
MapValues(m) == LET ks == SortedKeys(DOMAIN m) IN [i \in 1..Len(ks) |-> m[ks[i]]]

MapRemove(m, k) == [x \in (DOMAIN m) \ {k} |-> m[x]]

MapPut(m, k, v) == [x \in (DOMAIN m) \cup {k} |-> IF x = k THEN v ELSE m[x]]

EmptyMap == [x \in {} |-> 0]

(***************************************************************************)
(* Messages and their serialization.                                       *)
(*                                                                         *)
(* A Message<M> is {source_id, destination_id, session_id, content}.  The  *)
(* content M is a serde enum: a variant name and, here, one string         *)
(* payload (a sequence of Unicode code points).  Message::serialize is     *)
(* serde_json::to_string: the fields in declaration order, the numbers as  *)
(* ASCII digits, the variant as its name, the string as its UTF-8 bytes.   *)
(* The model keeps that layout with one byte per number (two for the       *)
(* session id, its high byte and its low bits) and per variant name,       *)
(* followed by the UTF-8 encoding of the text.                             *)
(***************************************************************************)
RequestVariants == {"ReqList", "ReqText"}
ResponseVariants == {"RespList", "RespText"}

VariantsOf(M) == IF M = "Request" THEN RequestVariants ELSE ResponseVariants

VariantByte(v) ==
  CASE v = "ReqList" -> 113 [] v = "ReqText" -> 114
    [] v = "RespList" -> 115 [] v = "RespText" -> 116

ByteVariant(b) ==
  CASE b = 113 -> "ReqList" [] b = 114 -> "ReqText"
    [] b = 115 -> "RespList" [] b = 116 -> "RespText" [] OTHER -> "None"

DigitByte(n) == 48 + n

IsDigitByte(b) == b >= 48 /\ b <= 57

\* UTF-8 encoding of one code point below U+0800.
Utf8Char(c) == IF c < 128 THEN <<c>> ELSE <<192 + (c \div 64), 128 + (c % 64)>>

RECURSIVE Utf8Encode(_)
Utf8Encode(text) ==
  IF text = <<>> THEN <<>>
  ELSE IF Len(text) = 1 THEN Utf8Char(text[1])
  ELSE LET mid == Len(text) \div 2
       IN Utf8Encode(SubSeq(text, 1, mid)) \o Utf8Encode(SubSeq(text, mid + 1, Len(text)))

IsLeadByte(b) == b >= 194 /\ b <= 223
IsContByte(b) == b >= 128 /\ b <= 191

\* std::str::from_utf8(bytes).is_ok(), for one- and two-byte sequences; every
\* other byte (192, 193, 224..255 as used here: 255) is rejected.
ValidUtf8(b) ==
  \A i \in 1..Len(b) :
    \/ b[i] < 128
    \/ IsLeadByte(b[i]) /\ i < Len(b) /\ IsContByte(b[i + 1])
    \/ IsContByte(b[i]) /\ i > 1 /\ IsLeadByte(b[i - 1])

RECURSIVE Utf8Decode(_)
Utf8Decode(b) ==
  IF b = <<>> THEN <<>>
  ELSE IF Len(b) = 1 THEN <<b[1]>>
  ELSE IF Len(b) = 2 /\ b[1] >= 128 THEN <<(b[1] - 192) * 64 + (b[2] - 128)>>
  ELSE LET mid == Len(b) \div 2
           cut == IF IsContByte(b[mid + 1]) THEN mid + 1 ELSE mid
       IN Utf8Decode(SubSeq(b, 1, cut)) \o Utf8Decode(SubSeq(b, cut + 1, Len(b)))

NewMessage(src, dst, sid, variant, text) ==
  [source_id |-> src, destination_id |-> dst, session_id |-> sid,
   content |-> [variant |-> variant, text |-> text]]

\* Message::serialize, as bytes (String::into_bytes).
Serialize(m) ==
  <<DigitByte(m.source_id), DigitByte(m.destination_id), DigitByte(m.session_id.hi),
    DigitByte(m.session_id.lo), VariantByte(m.content.variant)>>
    \o Utf8Encode(m.content.text)

\* Message::<M>::deserialize of a valid UTF-8 string given by its bytes:
\* Ok(message) or Err (serde_json::Error).
Deserialize(M, b) ==
  IF /\ Len(b) >= 5
     /\ \A i \in 1..4 : IsDigitByte(b[i])
     /\ ByteVariant(b[5]) \in VariantsOf(M)
  THEN [tag |-> "Ok",
        msg |-> NewMessage(b[1] - 48, b[2] - 48,
                           [hi |-> b[3] - 48, lo |-> b[4] - 48], ByteVariant(b[5]),
                           Utf8Decode(SubSeq(b, 6, Len(b))))]
  ELSE [tag |-> "Err"]

(***************************************************************************)
(* Fragment codec: Disassembler::decompose_message and                     *)
(* Assembler::compose_message.                                             *)
(***************************************************************************)
ZeroPad(b) == b \o [i \in 1..(FRAGMENT_DSIZE - Len(b)) |-> 0]

NFragmentsOf(len) ==
  IF len % FRAGMENT_DSIZE > 0 THEN (len \div FRAGMENT_DSIZE) + 1
  ELSE len \div FRAGMENT_DSIZE

\* A fragment whose length is always the full data size.
FragmentOf_full_length(bytes, fragment_index) ==
  [fragment_index |-> fragment_index,
   total_n_fragments |-> NFragmentsOf(Len(bytes)),
   length |-> FRAGMENT_DSIZE,
   data |-> ZeroPad(SubSeq(bytes, fragment_index * FRAGMENT_DSIZE + 1,
                           Min((fragment_index + 1) * FRAGMENT_DSIZE, Len(bytes))))]

\* The body of the loop of decompose_message.
FragmentOf(bytes, fragment_index) ==
  LET start == fragment_index * FRAGMENT_DSIZE
      end   == Min((fragment_index + 1) * FRAGMENT_DSIZE, Len(bytes))
  IN [fragment_index |-> fragment_index,
      total_n_fragments |-> NFragmentsOf(Len(bytes)),
      length |-> (end - start) % 256,
      data |-> ZeroPad(SubSeq(bytes, start + 1, end))]

\* The BTreeMap index -> Fragment of a message.
decompose_message(message) ==
  LET bytes == Serialize(message)
  IN [i \in 0..(NFragmentsOf(Len(bytes)) - 1) |-> FragmentOf(bytes, i)]

FragBytes(frag) == SubSeq(frag.data, 1, frag.length)

\* Assembler::<M>::compose_message: "Panic" when from_utf8(..).unwrap() fails
\* on some fragment's slice, else the result of Message::deserialize.
compose_message(M, fragments) ==
  IF \E i \in 1..Len(fragments) : ~ValidUtf8(FragBytes(fragments[i]))
  THEN [tag |-> "Panic"]
  ELSE Deserialize(M, Flatten([i \in 1..Len(fragments) |-> FragBytes(fragments[i])]))

(***************************************************************************)
(* Topology nodes (application/topology/node.rs).                          *)
(***************************************************************************)
NewDrone == [kind |-> "Drone", app |-> "None", latest_deliveries |-> <<>>]

DroneWith(deliveries) ==
  [kind |-> "Drone", app |-> "None", latest_deliveries |-> deliveries]

HostType(kind, app) == [kind |-> kind, app |-> app, latest_deliveries |-> <<>>]

\* A record_delivery that never pops the front.
record_delivery_unbounded(deliveries, delivery) == Append(deliveries, delivery)

\* Drone::record_delivery: push_back, and pop_front beyond MEMORY_SIZE.
record_delivery(deliveries, delivery) ==
  LET pushed == Append(deliveries, delivery)
  IN IF Len(pushed) > MEMORY_SIZE THEN Tail(pushed) ELSE pushed

\* Drone::merge_drone: record every delivery of the other drone in order.
RECURSIVE merge_drone(_, _)
merge_drone(deliveries, other) ==
  IF other = <<>> THEN deliveries
  ELSE merge_drone(record_delivery(deliveries, Head(other)), Tail(other))

DroppedCount(deliveries) ==
  Cardinality({i \in 1..Len(deliveries) : deliveries[i] = "Dropped"})

\* floor(2^bits * log2(x / 2^14)) for a mantissa x in [2^14, 2^15).
RECURSIVE Log2Frac(_, _)
Log2Frac(x, bits) ==
  IF bits = 0 THEN 0
  ELSE LET sq == (x * x) \div 16384
       IN IF sq >= 32768
          THEN 2 ^ (bits - 1) + Log2Frac(sq \div 2, bits - 1)
          ELSE Log2Frac(sq, bits - 1)

RECURSIVE Log2Int(_, _)
Log2Int(n, d) == IF n >= 2 * d THEN 1 + Log2Int(n, 2 * d) ELSE 0

\* 1000 * log2(n / d) for n >= d > 0, rounded down to 1/1024 of a unit.
Log2Milli(n, d) ==
  LET k == Log2Int(n, d)
      x == (n * 16384) \div (d * (2 ^ k))
  IN 1000 * k + (1000 * Log2Frac(x, 10)) \div 1024

\* NodeType::cost in thousandths: (1 - ALPHA) * log_B(1 / (1 - pdr)) + ALPHA with
\* ALPHA = 0.1, B = 2 and pdr = min(calculate_pdr(), 0.9999); calculate_pdr is 0
\* below MEMORY_SIZE / 10 recorded deliveries.  Hosts cost 0.
NodeCost(node_type) ==
  IF node_type.kind # "Drone" THEN 0
  ELSE LET total   == Len(node_type.latest_deliveries)
           dropped == DroppedCount(node_type.latest_deliveries)
       IN IF total < MEMORY_SIZE \div 10 \/ dropped = 0 THEN 100
          ELSE IF dropped * 10000 >= total * 9999
               THEN 100 + (900 * Log2Milli(10000, 1)) \div 1000
               ELSE 100 + (900 * Log2Milli(total, total - dropped)) \div 1000

NodeTypeNew(simple) ==
  IF simple = "Drone" THEN NewDrone ELSE HostType(simple, "Unknown")

weak_counter_part(node_type) ==
  CASE node_type.kind = "Drone"  -> node_type
    [] node_type.kind = "Server" -> HostType("Client", "Unknown")
    [] node_type.kind = "Client" -> HostType("Server", "Unknown")

strong_counter_part(node_type) ==
  CASE node_type.kind = "Drone"  -> node_type
    [] node_type.kind = "Server" -> HostType("Server", node_type.app)
    [] node_type.kind = "Client" -> HostType("Client", node_type.app)

\* ApplicationType::compatible.
compatible(a, b) ==
  CASE a = "Unknown"  -> TRUE
    [] b = "Unknown"  -> TRUE
    [] a = "Unwanted" -> FALSE
    [] b = "Unwanted" -> FALSE
    [] OTHER          -> a = b

\* A usefulness test that does not compare the simple kinds.
is_other_useful_any_kind(current, other) ==
  IF current.app = "Unknown" THEN TRUE
  ELSE IF current.app = "Unwanted" THEN FALSE
  ELSE other.kind = "Drone" /\ other.latest_deliveries # <<>>

\* Node::is_other_useful(current, other), both with the same id.
is_other_useful(current, other) ==
  IF current.kind # other.kind THEN FALSE
  ELSE IF current.app = "Unknown" THEN TRUE
  ELSE IF current.app = "Unwanted" THEN FALSE
  ELSE other.kind = "Drone" /\ other.latest_deliveries # <<>>

\* Node::is_route_meaningful(self, other).
is_route_meaningful(self_type, other) ==
  IF self_type.kind = "Drone" \/ other.kind = "Drone" THEN FALSE
  ELSE IF weak_counter_part(self_type).kind # other.kind THEN FALSE
  ELSE compatible(self_type.app, other.app)

(***************************************************************************)
(* The topology graph: AdjacencyVecGraph<NodeId, Node>, a node value and a *)
(* vector of adjacent ids per key.  The graph crate is not part of the     *)
(* repository; its operations are modelled as the router uses them: an     *)
(* edge joins two nodes of the graph, once, and never a node to itself.    *)
(***************************************************************************)
EmptyGraph == [nodes |-> EmptyMap, adj |-> EmptyMap]

HasNode(g, n) == n \in DOMAIN g.nodes

graph_add_node(g, n, node_type) ==
  [nodes |-> MapPut(g.nodes, n, node_type),
   adj   |-> IF HasNode(g, n) THEN g.adj ELSE MapPut(g.adj, n, <<>>)]

PushUnique(s, x) == IF x \in Range(s) THEN s ELSE Append(s, x)

add_undirected_edge(g, from, to) ==
  IF ~HasNode(g, from) \/ ~HasNode(g, to) \/ from = to THEN g
  ELSE [g EXCEPT !.adj = [n \in DOMAIN g.adj |->
          IF n = from THEN PushUnique(g.adj[n], to)
          ELSE IF n = to THEN PushUnique(g.adj[n], from)
          ELSE g.adj[n]]]

Without(s, x) == SelectSeq(s, LAMBDA y : y # x)

remove_undirected_edge(g, from, to) ==
  [g EXCEPT !.adj = [n \in DOMAIN g.adj |->
     IF n = from THEN Without(g.adj[n], to)
     ELSE IF n = to THEN Without(g.adj[n], from)
     ELSE g.adj[n]]]

HasEdge(g, a, b) == HasNode(g, a) /\ b \in Range(g.adj[a])

(***************************************************************************)
(* Information extractor (application/topology/information.rs).            *)
(***************************************************************************)
AddNode(n, node_type) == [op |-> "AddNode", id |-> n, node_type |-> node_type]
AddEdge(from, to) == [op |-> "AddEdge", from |-> from, to |-> to]
RemoveEdge(from, to) == [op |-> "RemoveEdge", from |-> from, to |-> to]

\* zip(iter, iter.skip(1)) mapped to AddEdge.
EdgeInfos(ids) ==
  IF Len(ids) < 2 THEN <<>>
  ELSE [i \in 1..(Len(ids) - 1) |-> AddEdge(ids[i], ids[i + 1])]

\* AddNode for the first hop with first_type and for every later hop with
\* rest_type, then result.pop().
HopNodeInfos(hops, first_type, rest_type) ==
  LET all == [i \in 1..Len(hops) |->
                AddNode(hops[i], IF i = 1 THEN first_type ELSE rest_type)]
  IN SubSeq(all, 1, Len(all) - 1)

Forwarded1 == DroneWith(<<"Forwarded">>)
Dropped1 == DroneWith(<<"Dropped">>)

\* InformationPack for (&SourceRoutingHeader, &Fragment).
fragment_information(hops, source_type) ==
  HopNodeInfos(hops, weak_counter_part(source_type), Forwarded1) \o EdgeInfos(hops)

\* InformationPack for (&SourceRoutingHeader, &Ack).
ack_information(hops, source_type) ==
  HopNodeInfos(hops, strong_counter_part(source_type), NewDrone) \o EdgeInfos(hops)

\* A Nack extractor that credits every hop, the reporter too, with a Forwarded.
nack_information_all_forwarded(hops, nack_type, source_type) ==
  HopNodeInfos(hops, Forwarded1, Forwarded1) \o EdgeInfos(hops)

\* InformationPack for (&SourceRoutingHeader, &Nack).
nack_information(hops, nack_type, source_type) ==
  CASE nack_type.kind = "ErrorInRouting" ->
         HopNodeInfos(hops, NewDrone, Forwarded1) \o EdgeInfos(hops)
           \o <<RemoveEdge(hops[1], nack_type.id)>>
    [] nack_type.kind = "DestinationIsDrone" ->
         HopNodeInfos(hops, Forwarded1, Forwarded1) \o EdgeInfos(hops)
    [] nack_type.kind = "Dropped" ->
         HopNodeInfos(hops, Dropped1, Forwarded1) \o EdgeInfos(hops)
    [] nack_type.kind = "UnexpectedRecipient" ->
         HopNodeInfos(hops, Dropped1, Forwarded1)
           \o <<AddNode(nack_type.id,
                        [weak_counter_part(source_type) EXCEPT !.app = source_type.app])>>
           \o EdgeInfos(hops)

\* InformationPack for &FloodRequest and &FloodResponse.
flood_information(path_trace) ==
  [i \in 1..Len(path_trace) |->
     AddNode(path_trace[i].id, NodeTypeNew(path_trace[i].kind))]
    \o EdgeInfos([i \in 1..Len(path_trace) |-> path_trace[i].id])

\* InformationPack for Packet.
get_information(packet, source_type) ==
  CASE packet.pack_type = "MsgFragment" ->
         fragment_information(packet.routing_header.hops, source_type)
    [] packet.pack_type = "Ack" ->
         ack_information(packet.routing_header.hops, source_type)
    [] packet.pack_type = "Nack" ->
         nack_information(packet.routing_header.hops, packet.nack_type, source_type)
    [] packet.pack_type \in {"FloodRequest", "FloodResponse"} ->
         flood_information(packet.path_trace)

(***************************************************************************)
(* SourceRouter (application/routing.rs): the graph, the stored routes and *)
(* the round-robin counter.                                                *)
(***************************************************************************)
NewRouter(source_id, source_type) ==
  [graph |-> graph_add_node(EmptyGraph, source_id, source_type),
   source_id |-> source_id, routes |-> <<>>, request_count |-> 0]

RouteDestination(route) == route[Len(route)]

contains_edge(route, from, to) ==
  \E i \in 1..(Len(route) - 1) : route[i] = from /\ route[i + 1] = to

RECURSIVE SumCost(_, _)
SumCost(g, route) ==
  IF route = <<>> THEN 0
  ELSE NodeCost(g.nodes[Head(route)]) + SumCost(g, Tail(route))

\* Route::cost.
RouteCost(g, route) == SumCost(g, route)

can_reach(router, destination) ==
  \E i \in 1..Len(router.routes) : RouteDestination(router.routes[i]) = destination

RoutesTo(router, destination) ==
  SelectSeq(router.routes, LAMBDA r : RouteDestination(r) = destination)

\* The leading routes to the destination whose cost does not exceed the first
\* one's by f32::EPSILON (take_while).
RECURSIVE TakeMinimal(_, _, _)
TakeMinimal(g, routes, min_cost) ==
  IF routes = <<>> THEN <<>>
  ELSE IF RouteCost(g, Head(routes)) - min_cost < 1
       THEN <<Head(routes)>> \o TakeMinimal(g, Tail(routes), min_cost)
       ELSE <<>>

\* SourceRouter::get_best_route: [route: the hops or <<>> for None, router].
get_best_route(router, destination) ==
  LET routes == RoutesTo(router, destination)
  IN IF routes = <<>> THEN [route |-> <<>>, router |-> router]
     ELSE LET minimal == TakeMinimal(router.graph, routes,
                                     RouteCost(router.graph, routes[1]))
          IN [route  |-> minimal[(router.request_count % Len(minimal)) + 1],
              router |-> [router EXCEPT
                            !.request_count = (router.request_count + 1) % (2 ^ 30)]]

router_add_edge(router, from, to) ==
  [router EXCEPT !.graph = add_undirected_edge(router.graph, from, to)]

router_remove_edge(router, from, to) ==
  [router EXCEPT
     !.graph  = remove_undirected_edge(router.graph, from, to),
     !.routes = SelectSeq(router.routes, LAMBDA r : ~contains_edge(r, from, to))]

\* SourceRouter::add_node.
router_add_node(router, n, node_type) ==
  IF HasNode(router.graph, n)
  THEN LET current == router.graph.nodes[n]
       IN IF ~is_other_useful(current, node_type) THEN router
          ELSE IF current.kind = "Drone"
               THEN [router EXCEPT !.graph.nodes[n].latest_deliveries =
                       merge_drone(current.latest_deliveries, node_type.latest_deliveries)]
               ELSE [router EXCEPT !.graph = graph_add_node(router.graph, n, node_type)]
  ELSE [router EXCEPT !.graph = graph_add_node(router.graph, n, node_type)]

apply_information(router, info) ==
  CASE info.op = "AddNode"    -> router_add_node(router, info.id, info.node_type)
    [] info.op = "AddEdge"    -> router_add_edge(router, info.from, info.to)
    [] info.op = "RemoveEdge" -> router_remove_edge(router, info.from, info.to)

\* The informations applied in order.  (Each intermediate router is bound as a
\* value before the next step reads it: inside ENABLED, TLC evaluates an
\* operator argument anew at each use.)
RECURSIVE apply_all(_, _)
apply_all(router, infos) ==
  IF infos = <<>> THEN router
  ELSE CHOOSE out \in {apply_all(next, Tail(infos))
                        : next \in {apply_information(router, Head(infos))}} : TRUE

\* SourceRouter::update_graph.
update_graph(router, packet) ==
  apply_all(router, get_information(packet, router.graph.nodes[router.source_id]))

\* SourceRouter::unwanted_node.
unwanted_node(router, n) ==
  LET marked == IF HasNode(router.graph, n) /\ router.graph.nodes[n].kind # "Drone"
                THEN [router EXCEPT !.graph.nodes[n].app = "Unwanted"]
                ELSE router
  IN [marked EXCEPT
        !.routes = SelectSeq(router.routes, LAMBDA r : RouteDestination(r) # n)]

\* A forget_topology that clears the graph and keeps the stored routes.
forget_topology_keeps_routes(router) ==
  [router EXCEPT
     !.graph = graph_add_node(EmptyGraph, router.source_id,
                              router.graph.nodes[router.source_id])]

\* SourceRouter::forget_topology.
forget_topology(router) ==
  [router EXCEPT
     !.graph  = graph_add_node(EmptyGraph, router.source_id,
                               router.graph.nodes[router.source_id]),
     !.routes = <<>>]

\* extend_route: the route followed by each adjacent node it does not contain.
extend_route(g, route) ==
  LET adjs == SelectSeq(g.adj[RouteDestination(route)], LAMBDA a : a \notin Range(route))
  IN [i \in 1..Len(adjs) |-> Append(route, adjs[i])]

\* The levels of routing.rs calculate_routes: level 1 is <<source>>, level i + 1
\* extends every route of level i; the last level is the last non-empty one.
RECURSIVE RouteLevels(_, _)
RouteLevels(g, levels) ==
  LET old_routes == levels[Len(levels)]
      new_routes == Flatten([i \in 1..Len(old_routes) |-> extend_route(g, old_routes[i])])
  IN IF new_routes = <<>> THEN levels ELSE RouteLevels(g, Append(levels, new_routes))

\* Insertion sort, stable like slice::sort_by, ascending by cost.
RECURSIVE InsertByCost(_, _, _)
InsertByCost(g, sorted, route) ==
  IF sorted = <<>> THEN <<route>>
  ELSE IF RouteCost(g, route) < RouteCost(g, Head(sorted))
       THEN <<route>> \o sorted
       ELSE <<Head(sorted)>> \o InsertByCost(g, Tail(sorted), route)

RECURSIVE SortByCost(_, _)
SortByCost(g, routes) ==
  IF routes = <<>> THEN <<>>
  ELSE InsertByCost(g, SortByCost(g, SubSeq(routes, 1, Len(routes) - 1)),
                    routes[Len(routes)])

HostCount(g, route) ==
  Cardinality({i \in 1..Len(route) : g.nodes[route[i]].kind # "Drone"})

\* A retain that does not count the hosts of the route.
RouteKept_any_host_count(g, source_id, route) ==
  is_route_meaningful(g.nodes[source_id], g.nodes[RouteDestination(route)])

\* The predicate of the retain in SourceRouter::calculate_routes.
RouteKept(g, source_id, route) ==
  /\ HostCount(g, route) = 2
  /\ is_route_meaningful(g.nodes[source_id], g.nodes[RouteDestination(route)])

\* The orders in which HashMap::into_values may yield the levels.
LevelOrders(n) == {f \in [1..n -> 1..n] : \A i, j \in 1..n : f[i] = f[j] => i = j}

\* SourceRouter::calculate_routes with the levels yielded in the given order.
calculate_routes_in(router, levels, order) ==
  LET g   == router.graph
      all == Flatten([i \in 1..Len(levels) |-> levels[order[i]]])
  IN [router EXCEPT !.routes =
        SortByCost(g, SelectSeq(all, LAMBDA r : RouteKept(g, router.source_id, r)))]

\* SourceRouter::calculate_routes: the set of routers it may leave.
calculate_routes(router) ==
  LET levels == RouteLevels(router.graph, <<(<<(<<router.source_id>>)>>)>>)
  IN {calculate_routes_in(router, levels, order) : order \in LevelOrders(Len(levels))}

(***************************************************************************)
(* Session ids.  A u64 is kept as its high byte and its low 56 bits;       *)
(* Disassembler::transform_session_id is (node_id << 56) | session_id.     *)
(***************************************************************************)
SessionId(hi, lo) == [hi |-> hi, lo |-> lo]

transform_session_id(session_id, node_id) == SessionId(node_id, session_id)

(***************************************************************************)
(* Assembler and Disassembler (application/assembler.rs).                  *)
(***************************************************************************)
\* An insert that starts the session over when the index is already stored.
insert_fragment_restarts(assembler, M, session_id, fragment) ==
  LET old      == IF session_id \in DOMAIN assembler THEN assembler[session_id]
                  ELSE EmptyMap
      frag_vec == IF fragment.fragment_index \in DOMAIN old
                  THEN MapPut(EmptyMap, fragment.fragment_index, fragment)
                  ELSE MapPut(old, fragment.fragment_index, fragment)
  IN [assembler |-> MapPut(assembler, session_id, frag_vec),
      result    |-> IF Cardinality(DOMAIN frag_vec) = fragment.total_n_fragments
                    THEN compose_message(M, MapValues(frag_vec))
                    ELSE [tag |-> "None"]]

\* Assembler::insert_fragment: the new assembler and None, Ok, Err or Panic.
insert_fragment(assembler, M, session_id, fragment) ==
  LET old      == IF session_id \in DOMAIN assembler THEN assembler[session_id]
                  ELSE EmptyMap
      frag_vec == MapPut(old, fragment.fragment_index, fragment)
  IN [assembler |-> MapPut(assembler, session_id, frag_vec),
      result    |-> IF Cardinality(DOMAIN frag_vec) = fragment.total_n_fragments
                    THEN compose_message(M, MapValues(frag_vec))
                    ELSE [tag |-> "None"]]

\* Assembler::forget.
assembler_forget(assembler, session_id) == MapRemove(assembler, session_id)

NewDisassembler == [fragments |-> EmptyMap, destinations |-> EmptyMap, last_session_id |-> 0]

\* Disassembler::disassembly; the fragments it returns are
\* MapValues(decompose_message(message)).
disassembly(d, message) ==
  [d EXCEPT
     !.destinations = MapPut(@, message.session_id, message.destination_id),
     !.fragments    = MapPut(@, message.session_id, decompose_message(message))]

HasFragment(d, session_id, fragment_index) ==
  /\ session_id \in DOMAIN d.fragments
  /\ fragment_index \in DOMAIN d.fragments[session_id]

\* forget_fragment without the removal of the destination entry.
forget_fragment_keeps_destination(d, session_id, fragment_index) ==
  IF session_id \in DOMAIN d.fragments
  THEN LET fragments == MapRemove(d.fragments[session_id], fragment_index)
       IN IF DOMAIN fragments = {}
          THEN [d EXCEPT !.fragments = MapRemove(@, session_id)]
          ELSE [d EXCEPT !.fragments[session_id] = fragments]
  ELSE d

\* Disassembler::forget_fragment.
forget_fragment(d, session_id, fragment_index) ==
  IF session_id \in DOMAIN d.fragments
  THEN LET fragments == MapRemove(d.fragments[session_id], fragment_index)
       IN IF DOMAIN fragments = {}
          THEN [d EXCEPT !.fragments    = MapRemove(@, session_id),
                         !.destinations = MapRemove(@, session_id)]
          ELSE [d EXCEPT !.fragments[session_id] = fragments]
  ELSE d

(***************************************************************************)
(* Packets and source routing headers (wg_2024).  hop_index counts from 0. *)
(***************************************************************************)
Header(hops, hop_index) == [hops |-> hops, hop_index |-> hop_index]

\* SourceRoutingHeader::initialize and Route::to_source_routing_header.
InitHeader(hops) == Header(hops, 0)

HasNextHop(h) == h.hop_index + 2 <= Len(h.hops)

next_hop(h) == h.hops[h.hop_index + 2]

increase_hop_index(h) == [h EXCEPT !.hop_index = @ + 1]

\* SourceRoutingHeader::get_reversed.
get_reversed(h) == Header(Reverse(h.hops), Len(h.hops) - h.hop_index - 1)

MsgFragmentPacket(header, session_id, fragment) ==
  [pack_type |-> "MsgFragment", session_id |-> session_id,
   routing_header |-> header, fragment |-> fragment]

AckPacket(header, session_id, fragment_index) ==
  [pack_type |-> "Ack", session_id |-> session_id,
   routing_header |-> header, fragment_index |-> fragment_index]

NackPacket(header, session_id, fragment_index, nack_type) ==
  [pack_type |-> "Nack", session_id |-> session_id, routing_header |-> header,
   fragment_index |-> fragment_index, nack_type |-> nack_type]

FloodRequestPacket(session_id, initiator_id, path_trace) ==
  [pack_type |-> "FloodRequest", session_id |-> session_id,
   routing_header |-> Header(<<>>, 0), initiator_id |-> initiator_id,
   path_trace |-> path_trace]

FloodResponsePacket(header, session_id, path_trace) ==
  [pack_type |-> "FloodResponse", session_id |-> session_id,
   routing_header |-> header, path_trace |-> path_trace]

Trace(n, kind) == [id |-> n, kind |-> kind]

\* FloodRequest::increment followed by FloodRequest::generate_response: the
\* route is the reversed path trace, extended by the initiator when the trace
\* does not start with it.
flood_response_to(request, self_id, self_kind) ==
  LET path_trace == Append(request.path_trace, Trace(self_id, self_kind))
      ids        == Reverse([i \in 1..Len(path_trace) |-> path_trace[i].id])
      hops       == IF ids[Len(ids)] # request.initiator_id
                    THEN Append(ids, request.initiator_id) ELSE ids
  IN FloodResponsePacket(InitHeader(hops), request.session_id, path_trace)

(***************************************************************************)
(* The host: struct Client / struct Server with the observations of the    *)
(* handler that ran last (packets forwarded, events emitted, the value     *)
(* returned) and whether the host thread has panicked.                     *)
(***************************************************************************)
NoMessage == [tag |-> "None"]

\* The host proceeds with the handler's next statement unless it panicked.
Panic(h) == [h EXCEPT !.panicked = TRUE]

\* Sender::send on the channel to a neighbour: Err when the neighbour has
\* dropped its receiver.
ChannelOpen(h, n) == n \notin h.disconnected

Emit(h, packet) == [h EXCEPT !.sent = Append(@, packet)]

Event(h, name, message) ==
  [h EXCEPT !.events = Append(@, [event |-> name, message |-> message])]

\* Client::forward.
client_forward(h, packet) ==
  IF h.panicked THEN h
  ELSE IF HasNextHop(packet.routing_header)
          /\ next_hop(packet.routing_header) \in h.packet_send
  THEN IF ChannelOpen(h, next_hop(packet.routing_header))
       THEN Emit(h, [packet EXCEPT !.routing_header = increase_hop_index(@)])
       ELSE Panic(h)
  ELSE h

\* Server::forward_packet.
server_forward_packet(h, packet) ==
  IF h.panicked THEN h
  ELSE IF ~HasNextHop(packet.routing_header) THEN Panic(h)
  ELSE IF next_hop(packet.routing_header) \in h.packet_send
  THEN IF ChannelOpen(h, next_hop(packet.routing_header))
       THEN Emit(h, [packet EXCEPT !.routing_header = increase_hop_index(@)])
       ELSE Panic(h)
  ELSE h

\* A retransmit that forwards nothing.
client_retransmit_skips(h, session_id, fragment_index) == h

\* Client::retransmit.
client_retransmit(h, session_id, fragment_index) ==
  IF HasFragment(h.disassembler, session_id, fragment_index)
  THEN IF session_id \notin DOMAIN h.disassembler.destinations THEN Panic(h)
       ELSE LET best == get_best_route(h.router, h.disassembler.destinations[session_id])
            IN IF best.route = <<>> THEN Panic(h)
               ELSE client_forward([h EXCEPT !.router = best.router],
                      MsgFragmentPacket(InitHeader(best.route), session_id,
                        h.disassembler.fragments[session_id][fragment_index]))
  ELSE h

\* Server::retransmit.
server_retransmit(h, session_id, fragment_index) ==
  IF ~HasFragment(h.disassembler, session_id, fragment_index) THEN Panic(h)
  ELSE IF session_id \notin DOMAIN h.disassembler.destinations THEN Panic(h)
  ELSE LET best == get_best_route(h.router, h.disassembler.destinations[session_id])
       IN IF best.route = <<>> THEN Panic(h)
          ELSE server_forward_packet([h EXCEPT !.router = best.router],
                 MsgFragmentPacket(InitHeader(best.route), session_id,
                   h.disassembler.fragments[session_id][fragment_index]))

\* ClientBehaviour::on_response_received.
on_response_received(h, message) ==
  [h EXCEPT !.responses =
     MapPut(@, message.session_id,
            IF message.session_id \in DOMAIN @ THEN @[message.session_id] + 1 ELSE 1)]

\* The MsgFragment arm of Client::handle_packet_normal, after update_graph.
client_on_fragment(h, packet) ==
  LET best == get_best_route(h.router, packet.routing_header.hops[1])
  IN IF best.route = <<>> THEN Panic(h)
     ELSE
       LET acked == client_forward([h EXCEPT !.router = best.router],
                      AckPacket(InitHeader(best.route), packet.session_id,
                                packet.fragment.fragment_index))
           ins   == insert_fragment(acked.assembler, "Response", packet.session_id,
                                    packet.fragment)
           stored == [acked EXCEPT !.assembler = ins.assembler]
       IN IF acked.panicked THEN acked
          ELSE CASE ins.result.tag = "None"  -> stored
                 [] ins.result.tag = "Panic" -> Panic(stored)
                 [] ins.result.tag = "Err"   -> Panic(stored)
                 [] ins.result.tag = "Ok"    ->
                      on_response_received(
                        [Event(stored, "MessageReceived", ins.result.msg) EXCEPT
                           !.assembler = assembler_forget(@, packet.session_id)],
                        ins.result.msg)

\* Client::handle_packet_normal.
handle_packet_normal(h, packet) ==
  LET h1 == [h EXCEPT !.router = update_graph(h.router, packet)]
  IN CASE packet.pack_type = "MsgFragment" -> client_on_fragment(h1, packet)
       [] packet.pack_type = "Ack" ->
            [h1 EXCEPT !.disassembler =
               forget_fragment(@, packet.session_id, packet.fragment_index)]
       [] packet.pack_type = "Nack" ->
            (CASE packet.nack_type.kind \in {"ErrorInRouting", "Dropped"} ->
                    client_retransmit(h1, packet.session_id, packet.fragment_index)
               [] packet.nack_type.kind = "DestinationIsDrone" -> h1
               [] packet.nack_type.kind = "UnexpectedRecipient" ->
                    [h1 EXCEPT !.router = unwanted_node(@, packet.nack_type.id)])
       [] packet.pack_type = "FloodRequest" ->
            client_forward(h1, flood_response_to(packet, h.id, "Client"))
       [] OTHER -> h1

\* A wait_for_response that hands every reassembled response to
\* on_response_received, the one it returns included.
wait_for_response_passes_all(h, packet) ==
  CASE packet.pack_type = "MsgFragment" ->
         LET h1  == [h EXCEPT !.router = update_graph(h.router, packet)]
             ins == insert_fragment(h1.assembler, "Response", packet.session_id,
                                    packet.fragment)
             stored == [h1 EXCEPT !.assembler = ins.assembler]
         IN (CASE ins.result.tag \in {"None", "Err"} -> stored
               [] ins.result.tag = "Panic" -> Panic(stored)
               [] ins.result.tag = "Ok" ->
                    (LET got == on_response_received(
                                  [Event(stored, "MessageReceived", ins.result.msg) EXCEPT
                                     !.assembler = assembler_forget(@, packet.session_id)],
                                  ins.result.msg)
                     IN IF ins.result.msg.content.variant = h.waiting
                        THEN [got EXCEPT !.waiting = "None", !.ret = "Ok"]
                        ELSE got))
    [] packet.pack_type = "Nack" /\ packet.nack_type.kind = "UnexpectedRecipient" ->
         LET h1 == handle_packet_normal(h, packet)
         IN IF h1.panicked THEN h1 ELSE [h1 EXCEPT !.waiting = "None", !.ret = "Err"]
    [] OTHER -> handle_packet_normal(h, packet)

\* One received packet inside Client::wait_for_response(predicate); the
\* predicate is matches!(response.content, <variant>).  ret is "Ok" or "Err"
\* when the loop breaks.
wait_for_response_packet(h, packet) ==
  CASE packet.pack_type = "MsgFragment" ->
         LET h1  == [h EXCEPT !.router = update_graph(h.router, packet)]
             ins == insert_fragment(h1.assembler, "Response", packet.session_id,
                                    packet.fragment)
             stored == [h1 EXCEPT !.assembler = ins.assembler]
         IN (CASE ins.result.tag \in {"None", "Err"} -> stored
               [] ins.result.tag = "Panic" -> Panic(stored)
               [] ins.result.tag = "Ok" ->
                    (LET got == [Event(stored, "MessageReceived", ins.result.msg) EXCEPT
                                   !.assembler = assembler_forget(@, packet.session_id)]
                     IN IF ins.result.msg.content.variant = h.waiting
                        THEN [got EXCEPT !.waiting = "None", !.ret = "Ok"]
                        ELSE on_response_received(got, ins.result.msg)))
    [] packet.pack_type = "Nack" /\ packet.nack_type.kind = "UnexpectedRecipient" ->
         LET h1 == handle_packet_normal(h, packet)
         IN IF h1.panicked THEN h1 ELSE [h1 EXCEPT !.waiting = "None", !.ret = "Err"]
    [] OTHER -> handle_packet_normal(h, packet)

\* Client::send_request.
send_request_fragments(h, destination_id, session_id, fragments) ==
  LET RECURSIVE Headers(_, _)
      \* the routing header of each fragment, get_best_route called in order
      Headers(router, n) ==
        IF n = 0 THEN <<>>
        ELSE LET best == get_best_route(router, destination_id)
             IN <<best>> \o Headers(best.router, n - 1)
      bests == Headers(h.router, Len(fragments))
      RECURSIVE ForwardAll(_, _)
      ForwardAll(hh, i) ==
        IF i > Len(fragments) THEN hh
        ELSE ForwardAll(client_forward(hh,
               MsgFragmentPacket(InitHeader(bests[i].route), session_id, fragments[i])),
               i + 1)
  IN ForwardAll([h EXCEPT !.router = bests[Len(bests)].router], 1)

\* send_request disassembling the request before the reachability check.
send_request_disassembles_first(h, request) ==
  LET h1 == [h EXCEPT !.disassembler = disassembly(@, request)]
  IN IF ~can_reach(h.router, request.destination_id) THEN [h1 EXCEPT !.ret = "false"]
     ELSE LET h2 == send_request_fragments(Event(h1, "MessageSent", request),
                      request.destination_id, request.session_id,
                      MapValues(decompose_message(request)))
          IN IF h2.panicked THEN h2 ELSE [h2 EXCEPT !.ret = "true"]

send_request(h, request) ==
  IF ~can_reach(h.router, request.destination_id) THEN [h EXCEPT !.ret = "false"]
  ELSE LET h1 == [Event(h, "MessageSent", request) EXCEPT
                    !.disassembler = disassembly(@, request)]
           h2 == send_request_fragments(h1, request.destination_id, request.session_id,
                                        MapValues(decompose_message(request)))
       IN IF h2.panicked THEN h2 ELSE [h2 EXCEPT !.ret = "true"]

\* Disassembler::new_session_id combined by Client::new_session_id.
client_new_session_id(h) ==
  transform_session_id(h.disassembler.last_session_id, h.id)

\* Client::initiate_flood and Server::initiate_flood: the FloodInitiated event,
\* then one FloodRequest to every sender of packet_send.
RECURSIVE flood_to(_, _, _)
flood_to(h, neighbours, request) ==
  IF h.panicked \/ neighbours = {} THEN h
  ELSE LET n == CHOOSE x \in neighbours : \A y \in neighbours : x <= y
       IN flood_to(IF ChannelOpen(h, n) THEN Emit(h, request) ELSE Panic(h),
                   neighbours \ {n}, request)

initiate_flood(h, session_id) ==
  flood_to(Event(h, "FloodInitiated", NoMessage), h.packet_send,
           FloodRequestPacket(session_id, h.id, <<Trace(h.id, h.kind)>>))

\* ServerBehaviour::handle_request: the response goes to the request's
\* source_id under the request's session_id.
handle_request(req, self_id) ==
  NewMessage(self_id, req.source_id, req.session_id,
             IF req.content.variant = "ReqList" THEN "RespList" ELSE "RespText",
             req.content.text)

\* One iteration of the loop of Server::send_response: the hosts it may leave.
send_response_fragment(h, destination, session_id, fragment) ==
  IF h.panicked THEN {h}
  ELSE LET routers == IF can_reach(h.router, destination) THEN {h.router}
                      ELSE calculate_routes(h.router)
       IN {LET best == get_best_route(r, destination)
           IN IF best.route = <<>> THEN Panic([h EXCEPT !.router = r])
              ELSE server_forward_packet([h EXCEPT !.router = best.router],
                     MsgFragmentPacket(InitHeader(best.route), session_id, fragment))
           : r \in routers}

RECURSIVE send_response_fragments(_, _, _, _)
send_response_fragments(hs, destination, session_id, fragments) ==
  IF fragments = <<>> THEN hs
  ELSE send_response_fragments(
         UNION {send_response_fragment(h, destination, session_id, Head(fragments))
                : h \in hs},
         destination, session_id, Tail(fragments))

\* Server::send_response.
send_response(h, response) ==
  send_response_fragments({[h EXCEPT !.disassembler = disassembly(@, response)]},
                          response.destination_id, response.session_id,
                          MapValues(decompose_message(response)))

\* The MsgFragment arm of Server::handle_packet, after update_graph.
server_on_fragment(h, packet) ==
  LET reversed == get_reversed(packet.routing_header)
      acked    == server_forward_packet(h,
                    AckPacket(reversed, packet.session_id, packet.fragment.fragment_index))
      ins      == insert_fragment(acked.assembler, "Request", packet.session_id,
                                  packet.fragment)
      stored   == [acked EXCEPT !.assembler = ins.assembler]
  IN IF acked.panicked THEN {acked}
     ELSE CASE ins.result.tag = "None"  -> {stored}
            [] ins.result.tag = "Panic" -> {Panic(stored)}
            [] ins.result.tag = "Err"   ->
                 {server_forward_packet(stored,
                    NackPacket(reversed, packet.session_id, 0,
                               [kind |-> "UnexpectedRecipient", id |-> h.id]))}
            [] ins.result.tag = "Ok"    ->
                 LET response == handle_request(ins.result.msg, h.id)
                 IN send_response(
                      Event(Event(stored, "MessageReceived", ins.result.msg),
                            "MessageSent", response),
                      response)

\* Server::handle_packet: the hosts it may leave.
handle_packet(h, packet) ==
  LET h1 == [h EXCEPT !.router = update_graph(h.router, packet)]
  IN CASE packet.pack_type = "MsgFragment" -> server_on_fragment(h1, packet)
       [] packet.pack_type = "Ack" ->
            {[h1 EXCEPT !.disassembler =
                forget_fragment(@, packet.session_id, packet.fragment_index)]}
       [] packet.pack_type = "Nack" ->
            IF packet.nack_type.kind \in {"ErrorInRouting", "Dropped"}
            THEN {server_retransmit(h1, packet.session_id, packet.fragment_index)}
            ELSE {h1}
       [] packet.pack_type = "FloodRequest" ->
            {server_forward_packet(h1, flood_response_to(packet, h.id, "Server"))}
       [] OTHER -> {h1}

\* Client::handle_command and Server::handle_command.
handle_command(h, command) ==
  CASE command.cmd = "Crash" -> [h EXCEPT !.active = FALSE]
    [] command.cmd = "AddConnectedDrone" ->
         [h EXCEPT !.router = router_add_edge(@, h.id, command.id),
                   !.packet_send = @ \cup {command.id}]
    [] command.cmd = "RemoveConnectedDrone" ->
         [h EXCEPT !.router = router_remove_edge(@, h.id, command.id),
                   !.packet_send = @ \ {command.id}]

(***************************************************************************)
(* State.                                                                  *)
(***************************************************************************)
VARIABLES
  kind,          \* "Client" or "Server": which host this is
  id,            \* the host's NodeId
  router,        \* SourceRouter
  assembler,     \* Assembler.fragments
  disassembler,  \* Disassembler
  packet_send,   \* the neighbours the host holds a packet sender for
  active,        \* the active flag of the event loop
  state,         \* "Idle", "Active" (in the loop of run()), "Joining" (a client
                 \* out of its loop, joining its card thread), "Terminated"
  phase,         \* server: the batch of the loop iteration, "commands" or "packets"
  waiting,       \* client: "None", or the variant wait_for_response waits for
  panicked,      \* the host thread has panicked
  responses,     \* session id -> number of on_response_received calls
  sent,          \* the packets the last handler gave to a neighbour's channel
  events,        \* the events the last handler sent to the controller
  ret,           \* what the last call returned
  last,          \* the input of the last handler
  steps,         \* handlers run so far
  disconnected,  \* the drones that have dropped their packet receiver
  codec,         \* the codec run: message, assembler, inserted indices, results
  network,       \* the client's fragments in flight, and the drops so far
  controller_recv, \* the commands the controller sent that the host has not received
  game,          \* the card threads (ClientGame) and their rendezvous channels
  turn_handler   \* the TurnHandler the card threads share, behind its mutex

vars == <<kind, id, router, assembler, disassembler, packet_send, active, state, phase,
          waiting, panicked, responses, sent, events, ret, last, steps, disconnected,
          codec, network, controller_recv, game, turn_handler>>

\* What the card threads and the controller's command channel hold.
gameVars == <<controller_recv, game, turn_handler>>

\* The host as its handlers see it, with the observations cleared.
Host ==
  [kind |-> kind, id |-> id, router |-> router, assembler |-> assembler,
   disassembler |-> disassembler, packet_send |-> packet_send, active |-> active,
   waiting |-> waiting, panicked |-> panicked, responses |-> responses,
   disconnected |-> disconnected, sent |-> <<>>, events |-> <<>>, ret |-> "none"]

HostCommit(h, input) ==
  /\ router' = h.router
  /\ assembler' = h.assembler
  /\ disassembler' = h.disassembler
  /\ packet_send' = h.packet_send
  /\ active' = h.active
  /\ waiting' = h.waiting
  /\ panicked' = h.panicked
  /\ responses' = h.responses
  /\ sent' = h.sent
  /\ events' = h.events
  /\ ret' = h.ret
  /\ last' = input
  /\ steps' = steps + 1
  /\ UNCHANGED <<kind, id, disconnected>>

Commit(h, input) == HostCommit(h, input) /\ UNCHANGED <<codec, network, gameVars>>

Input(op, arg) == [op |-> op, arg |-> arg, waiting |-> waiting]

(***************************************************************************)
(* The inputs of the model: node 1 is the host, 2 and 3 are drones, 4 is   *)
(* the host of the counterpart kind.                                       *)
(***************************************************************************)
Drones == {2, 3}

Counterpart(k) == IF k = "Client" THEN "Server" ELSE "Client"

\* The session of the traffic: the client's first request, or a request of the
\* peer client to the server.
SessionOf(k) == IF k = "Client" THEN SessionId(1, 0) ELSE SessionId(4, 0)

ShortText == <<>>
LongText == [i \in 1..(FRAGMENT_DSIZE - 4) |-> 97]

\* A message the host's assembler can parse, in one or in two fragments, and
\* one of the type the host sends rather than receives.
InboundMessages(k) ==
  IF k = "Client"
  THEN {NewMessage(4, 1, SessionOf(k), "RespList", ShortText),
        NewMessage(4, 1, SessionOf(k), "RespText", LongText),
        NewMessage(4, 1, SessionOf(k), "ReqList", ShortText)}
  ELSE {NewMessage(4, 1, SessionOf(k), "ReqList", ShortText),
        NewMessage(4, 1, SessionOf(k), "ReqText", LongText),
        NewMessage(4, 1, SessionOf(k), "RespList", ShortText)}

\* A single fragment whose byte is not UTF-8.
BadUtf8Fragment ==
  [fragment_index |-> 0, total_n_fragments |-> 1, length |-> 1, data |-> ZeroPad(<<255>>)]

InboundFragments(k) ==
  UNION {Range(MapValues(decompose_message(m))) : m \in InboundMessages(k)}
    \cup {BadUtf8Fragment}

\* Routing headers of packets at rest at the host: hop_index is the host's.
Arrived(hops) == Header(hops, Len(hops) - 1)

NackTypes ==
  {[kind |-> "Dropped"], [kind |-> "DestinationIsDrone"],
   [kind |-> "ErrorInRouting", id |-> 4], [kind |-> "UnexpectedRecipient", id |-> 4]}

FragmentPackets(k) ==
  {MsgFragmentPacket(Arrived(<<4, 2, 1>>), SessionOf(k), f) : f \in InboundFragments(k)}

AckPackets(k) == {AckPacket(Arrived(<<4, 2, 1>>), SessionOf(k), i) : i \in {0, 1}}

NackPackets(k) == {NackPacket(Arrived(<<2, 1>>), SessionOf(k), 0, t) : t \in NackTypes}

FloodPackets(k) ==
  {FloodResponsePacket(Arrived(<<4, d, 1>>), SessionId(1, 0),
                       <<Trace(1, k), Trace(d, "Drone"), Trace(4, Counterpart(k))>>)
     : d \in Drones}
  \cup {FloodRequestPacket(SessionId(4, 0), 4,
                           <<Trace(4, Counterpart(k)), Trace(2, "Drone")>>)}

PacketsOf(k) == FragmentPackets(k) \cup AckPackets(k) \cup NackPackets(k) \cup FloodPackets(k)

ClientPackets == PacketsOf("Client")
ServerPackets == PacketsOf("Server")

Commands ==
  {[cmd |-> "Crash"], [cmd |-> "AddConnectedDrone", id |-> 3],
   [cmd |-> "RemoveConnectedDrone", id |-> 2]}

\* The requests a card sends: the variant and text, and the variant the card
\* then waits for ("None": the card does not wait).
CardRequests ==
  {[variant |-> "ReqList", text |-> ShortText, wait |-> "RespList"],
   [variant |-> "ReqText", text |-> LongText, wait |-> "None"]}

(***************************************************************************)
(* Init: the host as Client::new / Server::new leave it.  The application  *)
(* type is ChatClientBehaviour's / ChatServerBehaviour's.                  *)
(***************************************************************************)
\* The clients that share the TurnHandler: the host when it is a client, and
\* one more client.
Players == {1, 5}

\* TurnHandler::new, behind the mutex create_turn_handler wraps it in.
NewTurnHandler == [nodes |-> <<>>, current_turn |-> 0, poisoned |-> FALSE]

\* ClientGame::start_thread as Client::new calls it: every card thread is at
\* the start of ClientGame::run and no card is on a rendezvous channel.  net is
\* where the host's network thread is in its loop ("select", "activating" a
\* card, or at the "handshake" recv); peer is the other client's network thread.
NewGame ==
  [pc |-> [c \in Players |-> "start"], card |-> [c \in Players |-> "None"],
   net |-> "select", peer |-> "Idle"]

HostInit ==
  /\ kind \in {"Client", "Server"}
  /\ id = 1
  /\ router = NewRouter(id, HostType(kind, "Chat"))
  /\ assembler = EmptyMap
  /\ disassembler = NewDisassembler
  /\ packet_send = {2}
  /\ active = FALSE
  /\ state = "Idle"
  /\ phase = "packets"
  /\ waiting = "None"
  /\ panicked = FALSE
  /\ responses = EmptyMap
  /\ sent = <<>>
  /\ events = <<>>
  /\ ret = "none"
  /\ last = [op |-> "new", arg |-> NoMessage, waiting |-> "None"]
  /\ steps = 0
  /\ disconnected = {}
  /\ controller_recv = <<>>
  /\ game = NewGame
  /\ turn_handler = NewTurnHandler

NoTraffic == [inflight |-> {}, drops |-> 0]

Init == HostInit /\ codec = NoMessage /\ network = NoTraffic

(***************************************************************************)
(* Actions.                                                                *)
(***************************************************************************)
\* Client::run / Server::run entered, on a host that is not inside run():
\* self.active = true, whatever the flag was.
Run ==
  /\ state \in {"Idle", "Terminated"}
  /\ state = "Terminated" => steps < MaxSteps
  /\ state' = "Active"
  /\ active' = TRUE
  /\ UNCHANGED <<kind, id, router, assembler, disassembler, packet_send, phase, waiting,
                 panicked, responses, sent, events, ret, last, steps, disconnected, codec, network, gameVars>>

Running == state = "Active" /\ ~panicked /\ steps < MaxSteps

\* The client's select receives a packet (in the event loop, or inside
\* wait_for_response while a card is being executed).
ClientPacket(packet) ==
  /\ kind = "Client" /\ Running /\ active
  /\ \E h \in {IF waiting = "None" THEN handle_packet_normal(Host, packet)
               ELSE wait_for_response_packet(Host, packet)} :
       Commit(h, Input("packet", packet))
  /\ UNCHANGED <<state, phase>>

\* The client's select receives a command.
ClientCommand(command) ==
  /\ kind = "Client" /\ Running /\ active /\ waiting = "None"
  /\ \E h \in {handle_command(Host, command)} : Commit(h, Input("command", command))
  /\ UNCHANGED <<state, phase>>

\* A card that sends a request: new_session_id, send_request and, when that
\* returned true and the card waits for the answer, wait_for_response.
CardSendRequest(destination, request) ==
  /\ kind = "Client" /\ Running /\ active /\ waiting = "None"
  /\ LET message == NewMessage(id, destination, client_new_session_id(Host),
                               request.variant, request.text)
     IN \E h \in {send_request([Host EXCEPT !.disassembler.last_session_id = @ + 1],
                                message)} :
          Commit(IF h.ret = "true" THEN [h EXCEPT !.waiting = request.wait] ELSE h,
                 Input("send_request", message))
  /\ UNCHANGED <<state, phase>>

\* The Navigator card: Client::calculate_routes.
CardCalculateRoutes ==
  /\ kind = "Client" /\ Running /\ active /\ waiting = "None"
  /\ \E r \in calculate_routes(router) :
       Commit([Host EXCEPT !.router = r], Input("calculate_routes", NoMessage))
  /\ UNCHANGED <<state, phase>>

\* The Forget Topology card: Client::forget_topology.
CardForgetTopology ==
  /\ kind = "Client" /\ Running /\ active /\ waiting = "None"
  /\ Commit([Host EXCEPT !.router = forget_topology(@)],
            Input("forget_topology", NoMessage))
  /\ UNCHANGED <<state, phase>>

\* The Explorer card: Client::initiate_flood.
CardInitiateFlood ==
  /\ kind = "Client" /\ Running /\ active /\ waiting = "None"
  /\ \E h \in {initiate_flood([Host EXCEPT !.disassembler.last_session_id = @ + 1],
                              client_new_session_id(Host))} :
       Commit(h, Input("initiate_flood", NoMessage))
  /\ UNCHANGED <<state, phase>>

\* The client's loop finds the active flag false: run() leaves the loop and
\* joins the card thread.
ClientExit ==
  /\ kind = "Client" /\ state = "Active" /\ ~panicked /\ ~active
  /\ state' = "Joining"
  /\ UNCHANGED <<kind, id, router, assembler, disassembler, packet_send, active, phase,
                 waiting, panicked, responses, sent, events, ret, last, steps,
                 disconnected, codec, network, gameVars>>

\* The server handles one command of the batch gather_commands returned.
ServerCommand(command) ==
  /\ kind = "Server" /\ Running /\ phase = "commands"
  /\ \E h \in {handle_command(Host, command)} : Commit(h, Input("command", command))
  /\ UNCHANGED <<state, phase>>

\* The server handles one packet of the batch gather_packets returned; the
\* batch of commands of this iteration is over.
ServerPacket(packet) ==
  /\ kind = "Server" /\ Running
  /\ \E h \in handle_packet(Host, packet) : Commit(h, Input("packet", packet))
  /\ phase' = "packets"
  /\ UNCHANGED state

\* The top of the server's loop, after the batch of packets (which may be
\* empty) of the iteration before: run() returns when the active flag is false;
\* otherwise the periodic flood and route update run when they are due and the
\* next batch of commands is gathered.
ServerLoopTop(flood, routes) ==
  /\ kind = "Server" /\ state = "Active" /\ ~panicked
  /\ IF ~active
     THEN /\ state' = "Terminated"
          /\ UNCHANGED <<kind, id, router, assembler, disassembler, packet_send, active,
                         phase, waiting, panicked, responses, sent, events, ret, last,
                         steps, disconnected, codec, network, gameVars>>
     ELSE /\ phase' = "commands"
          /\ UNCHANGED state
          /\ IF ~flood /\ ~routes
             THEN UNCHANGED <<kind, id, router, assembler, disassembler, packet_send,
                              active, waiting, panicked, responses, sent, events, ret,
                              last, steps, disconnected, codec, network, gameVars>>
             ELSE /\ steps < MaxSteps
                  /\ \E flooded \in {IF flood THEN initiate_flood(Host, SessionId(0, 0))
                                      ELSE Host} :
                       \E r \in IF routes /\ ~flooded.panicked
                                THEN calculate_routes(flooded.router)
                                ELSE {flooded.router} :
                         Commit([flooded EXCEPT !.router = r],
                                Input("tick", [flood |-> flood, routes |-> routes]))

\* A drone crashes: its packet receiver is dropped, and sends to it fail.
DroneCrash(d) ==
  /\ d \in Drones \ disconnected
  /\ steps < MaxSteps
  /\ disconnected' = disconnected \cup {d}
  /\ UNCHANGED <<kind, id, router, assembler, disassembler, packet_send, active, state,
                 phase, waiting, panicked, responses, sent, events, ret, last, steps,
                 codec, network, gameVars>>

Next ==
  \/ Run
  \/ \E packet \in ClientPackets : ClientPacket(packet)
  \/ \E command \in Commands : ClientCommand(command)
  \/ \E request \in CardRequests : CardSendRequest(4, request)
  \/ CardCalculateRoutes
  \/ CardForgetTopology
  \/ CardInitiateFlood
  \/ ClientExit
  \/ \E command \in Commands : ServerCommand(command)
  \/ \E packet \in ServerPackets : ServerPacket(packet)
  \/ \E flood, routes \in BOOLEAN : ServerLoopTop(flood, routes)
  \/ DroneCrash(2)

Spec == Init /\ [][Next]_vars

(***************************************************************************)
(* The codec on its own: Disassembler::disassembly of one message, and the *)
(* fragments it returned inserted one by one, in any order, into an empty  *)
(* Assembler.                                                              *)
(***************************************************************************)
\* Texts of up to MaxPad ASCII letters, alone or followed by a two-byte
\* character (U+00E9).
CodecTexts ==
  {[i \in 1..n |-> 97] \o suffix : n \in 0..MaxPad, suffix \in {<<>>, <<233>>}}

CodecMessages == {NewMessage(4, 1, SessionId(4, 0), "RespText", text) : text \in CodecTexts}

InitCodec ==
  /\ HostInit
  /\ network = NoTraffic
  /\ codec \in {[tag |-> "Run", message |-> m,
                 fragments |-> MapValues(decompose_message(m)),
                 assembler |-> EmptyMap, inserted |-> {}, results |-> <<>>]
                : m \in CodecMessages}

\* Assembler::insert_fragment of a fragment not inserted before.
CodecInsert(index) ==
  /\ codec.tag = "Run"
  /\ index \in 0..(Len(codec.fragments) - 1) \ codec.inserted
  /\ \A k \in 1..Len(codec.results) : codec.results[k].tag # "Panic"
  /\ LET ins == insert_fragment(codec.assembler, "Response", codec.message.session_id,
                                codec.fragments[index + 1])
     IN codec' = [codec EXCEPT !.assembler = ins.assembler,
                               !.inserted = @ \cup {index},
                               !.results = Append(@, ins.result)]
  /\ UNCHANGED <<kind, id, router, assembler, disassembler, packet_send, active, state,
                 phase, waiting, panicked, responses, sent, events, ret, last, steps,
                 disconnected, network, gameVars>>

NextCodec == \E index \in 0..(NFragmentsOf(MaxPad + 7) - 1) : CodecInsert(index)

SpecCodec == InitCodec /\ [][NextCodec]_vars

(***************************************************************************)
(* C3: for every message, inserting the fragments of its disassembly into  *)
(* an empty assembler session in any order returns None for every insert   *)
(* but the one that brings the stored indices to total_n_fragments, and    *)
(* that one returns Some(Ok(m')) with m' equal to the message.             *)
(***************************************************************************)
C3_ReassemblyRoundTrip ==
  codec.tag = "Run" =>
    \A k \in 1..Len(codec.results) :
      IF k = Len(codec.fragments)
      THEN codec.results[k] = [tag |-> "Ok", msg |-> codec.message]
      ELSE codec.results[k].tag = "None"


(***************************************************************************)
(* Observations of the handler that ran last.                              *)
(***************************************************************************)
HandledPacket(pack_type) == last.op = "packet" /\ last.arg.pack_type = pack_type

SentOfType(pack_type) == SelectSeq(sent, LAMBDA p : p.pack_type = pack_type)

\* The routing header of a packet the host put on a channel: the route starts
\* at the host, the packet is on its way to the first hop.
LeavesHostFor(header, destination) ==
  /\ header.hops[1] = id
  /\ header.hops[Len(header.hops)] = destination
  /\ header.hop_index = 1

(***************************************************************************)
(* C1: no sequence of well-formed inbound packets interleaved with         *)
(* commands makes a client or server host panic: handling a packet never   *)
(* aborts the host thread.  (Every neighbour's channel is open here: no    *)
(* drone has crashed; a fragment whose bytes are not UTF-8 is left to C10.)*)
(***************************************************************************)
HandledWellFormedPacket ==
  /\ last.op = "packet"
  /\ HandledPacket("MsgFragment") => ValidUtf8(FragBytes(last.arg.fragment))

C1_PacketsNeverPanic == ~(panicked /\ HandledWellFormedPacket /\ disconnected = {})

(***************************************************************************)
(* C2: for every session id, on_response_received is invoked at most once  *)
(* with a message of that session, whatever packets arrive.                *)
(***************************************************************************)
C2_ResponseAtMostOnce == \A s \in DOMAIN responses : responses[s] <= 1

\* Every neighbour the host's topology gives it has a sender in packet_send
\* (forward and forward_packet skip a packet whose next hop has none), and no
\* neighbour has dropped its receiver.
NeighboursConnected ==
  /\ Range(router.graph.adj[id]) \subseteq packet_send
  /\ disconnected = {}

(***************************************************************************)
(* C4: whenever a host handles a MsgFragment packet (a server in its loop, *)
(* a client in its loop or inside wait_for_response) it forwards exactly   *)
(* one Ack with the packet's session id and the fragment's index, on a     *)
(* route from the host to the fragment's source.                           *)
(***************************************************************************)
C4_AckPerFragment ==
  (HandledPacket("MsgFragment") /\ ~panicked /\ NeighboursConnected) =>
    /\ Len(SentOfType("Ack")) = 1
    /\ LET ack == SentOfType("Ack")[1]
       IN /\ ack.session_id = last.arg.session_id
          /\ ack.fragment_index = last.arg.fragment.fragment_index
          /\ LeavesHostFor(ack.routing_header, last.arg.routing_header.hops[1])

(***************************************************************************)
(* C5: a host that handles a Nack of kind Dropped or ErrorInRouting for a  *)
(* (session, fragment index) its disassembler retains forwards exactly one *)
(* MsgFragment of that session carrying the retained fragment unchanged,   *)
(* on a route from the host to the destination recorded for the session.   *)
(***************************************************************************)
C5_RetransmitOnNack ==
  ( /\ HandledPacket("Nack")
    /\ last.arg.nack_type.kind \in {"Dropped", "ErrorInRouting"}
    /\ HasFragment(disassembler, last.arg.session_id, last.arg.fragment_index)
    /\ NeighboursConnected ) =>
    /\ Len(SentOfType("MsgFragment")) = 1
    /\ LET p == SentOfType("MsgFragment")[1]
       IN /\ p.session_id = last.arg.session_id
          /\ p.fragment = disassembler.fragments[last.arg.session_id][last.arg.fragment_index]
          /\ LeavesHostFor(p.routing_header, disassembler.destinations[last.arg.session_id])

(***************************************************************************)
(* C8: a host, client or server, that handles Nack{UnexpectedRecipient(who)}*)
(* marks who as Unwanted in its router, keeps no route to who, and         *)
(* forwards no MsgFragment.                                                *)
(***************************************************************************)
C8_UnexpectedRecipientUnwanted ==
  (HandledPacket("Nack") /\ last.arg.nack_type.kind = "UnexpectedRecipient" /\ ~panicked) =>
    /\ HasNode(router.graph, last.arg.nack_type.id)
    /\ router.graph.nodes[last.arg.nack_type.id].app = "Unwanted"
    /\ ~can_reach(router, last.arg.nack_type.id)
    /\ SentOfType("MsgFragment") = <<>>

\* The message type the host's assembler parses.
InboundType == IF kind = "Client" THEN "Response" ELSE "Request"

\* The fragment is a whole message whose bytes are not valid UTF-8 or do not
\* parse as the host's inbound message type.
CompletesMalformed(fragment) ==
  /\ fragment.total_n_fragments = 1
  /\ \/ ~ValidUtf8(FragBytes(fragment))
     \/ Deserialize(InboundType, FragBytes(fragment)).tag = "Err"

(***************************************************************************)
(* C10: when the fragment completing a session arrives (its Ack has gone   *)
(* out) and the reassembled bytes are not valid UTF-8 or do not parse as   *)
(* the expected message type, the host, client or server, does not crash.  *)
(***************************************************************************)
C10_MalformedKeepsRunning ==
  ( /\ HandledPacket("MsgFragment")
    /\ CompletesMalformed(last.arg.fragment)
    /\ Len(SentOfType("Ack")) = 1 ) => ~panicked

(***************************************************************************)
(* The disassembler's retained (session, fragment index) pairs.            *)
(***************************************************************************)
Retained(d) ==
  UNION {{<<s, i>> : i \in DOMAIN d.fragments[s]} : s \in DOMAIN d.fragments}

DestinationIffRetained ==
  \A s \in DOMAIN disassembler.destinations \cup DOMAIN disassembler.fragments :
    s \in DOMAIN disassembler.destinations <=> \E r \in Retained(disassembler) : r[1] = s

\* The step is the handling of one packet of the given type.
HandlesPacket(pack_type) ==
  steps' = steps + 1 /\ last'.op = "packet" /\ last'.arg.pack_type = pack_type

AckRemovesItsFragment ==
  HandlesPacket("Ack") =>
    LET s == last'.arg.session_id
        i == last'.arg.fragment_index
    IN /\ Retained(disassembler') = Retained(disassembler) \ {<<s, i>>}
       /\ \A r \in Retained(disassembler') :
            disassembler'.fragments[r[1]][r[2]] = disassembler.fragments[r[1]][r[2]]
       /\ (\A r \in Retained(disassembler') : r[1] # s) =>
            /\ s \notin DOMAIN disassembler'.fragments
            /\ s \notin DOMAIN disassembler'.destinations

(***************************************************************************)
(* C7: in every reachable state a session id has a recorded destination    *)
(* iff the disassembler retains at least one fragment of it; handling      *)
(* Ack(s, i) removes exactly fragment i of session s and leaves the rest   *)
(* as they were, and once no fragment of s is left neither a fragment map  *)
(* nor a destination of s remains.                                         *)
(***************************************************************************)
C7_DisassemblerBookkeeping == [](DestinationIffRetained) /\ [][AckRemovesItsFragment]_vars

\* An Ack for fragment 0 of a two-fragment session was handled: fragment 1 and
\* the destination are still retained.
C7_Witness ==
  /\ HandledPacket("Ack")
  /\ last.arg.fragment_index = 0
  /\ Retained(disassembler) = {<<last.arg.session_id, 1>>}
  /\ last.arg.session_id \in DOMAIN disassembler.destinations

(***************************************************************************)
(* Client::send_request as a step: the card drew the session id, then      *)
(* called send_request(last'.arg).                                         *)
(***************************************************************************)
SendsRequest == steps' = steps + 1 /\ last'.op = "send_request"

FragmentsOf(message) == MapValues(decompose_message(message))

ReturnsFalseCleanly ==
  /\ (ret' = "false") <=> ~can_reach(router, last'.arg.destination_id)
  /\ ret' = "false" =>
       /\ events' = <<>>
       /\ sent' = <<>>
       /\ disassembler'.fragments = disassembler.fragments
       /\ disassembler'.destinations = disassembler.destinations

OneMessageSent ==
  ret' = "true" => events' = <<[event |-> "MessageSent", message |-> last'.arg]>>

\* Every packet forwarded is a fragment of the request on a route to its
\* destination.
ForwardsOnlyFragments ==
  \A k \in 1..Len(sent') :
    /\ sent'[k].pack_type = "MsgFragment"
    /\ sent'[k].session_id = last'.arg.session_id
    /\ sent'[k].fragment \in Range(FragmentsOf(last'.arg))
    /\ LeavesHostFor(sent'[k].routing_header, last'.arg.destination_id)

ForwardsEveryFragment ==
  [k \in 1..Len(sent') |-> sent'[k].fragment] = FragmentsOf(last'.arg)

\* Every stored route to the destination starts with a neighbour the client
\* holds a sender for.
RoutesStartConnected(destination) ==
  \A k \in 1..Len(router.routes) :
    RouteDestination(router.routes[k]) = destination => router.routes[k][2] \in packet_send

(***************************************************************************)
(* The client and its network: the client learns a topology and sends one  *)
(* request to server 4; each fragment it transmitted is delivered (and the *)
(* server's Ack comes back along the reversed route) or dropped by the     *)
(* first drone of its route (whose Nack{Dropped} comes back).  The client  *)
(* handles what comes back in its loop, or in wait_for_response.           *)
(***************************************************************************)
InitLive == HostInit /\ kind = "Client" /\ codec = NoMessage /\ network = NoTraffic

ClientHandle(packet) ==
  IF waiting = "None" THEN handle_packet_normal(Host, packet)
  ELSE wait_for_response_packet(Host, packet)

Transmitted(h) == Range(SelectSeq(h.sent, LAMBDA p : p.pack_type = "MsgFragment"))

BeforeRequest == kind = "Client" /\ Running /\ active /\ disassembler.last_session_id = 0

\* A FloodResponse of an earlier flood reaches the client.
LiveLearn(d) ==
  /\ BeforeRequest
  /\ LET packet == FloodResponsePacket(Arrived(<<4, d, 1>>), SessionId(1, 0),
                     <<Trace(1, "Client"), Trace(d, "Drone"), Trace(4, "Server")>>)
     IN \E h \in {handle_packet_normal(Host, packet)} :
          HostCommit(h, Input("packet", packet))
  /\ UNCHANGED <<state, phase, codec, network, gameVars>>

\* The controller connects drone 3.
LiveConnect ==
  /\ BeforeRequest
  /\ LET command == [cmd |-> "AddConnectedDrone", id |-> 3]
     IN \E h \in {handle_command(Host, command)} :
          HostCommit(h, Input("command", command))
  /\ UNCHANGED <<state, phase, codec, network, gameVars>>

LiveCalculateRoutes ==
  /\ BeforeRequest
  /\ \E r \in calculate_routes(router) :
       HostCommit([Host EXCEPT !.router = r], Input("calculate_routes", NoMessage))
  /\ UNCHANGED <<state, phase, codec, network, gameVars>>

\* The card sends its request; the fragments forwarded are in flight.
LiveSendRequest(request) ==
  /\ kind = "Client" /\ state = "Active" /\ ~panicked /\ active
  /\ disassembler.last_session_id = 0
  /\ LET message == NewMessage(id, 4, client_new_session_id(Host), request.variant,
                               request.text)
     IN \E h \in {send_request([Host EXCEPT !.disassembler.last_session_id = @ + 1],
                                message)} :
          /\ HostCommit(IF h.ret = "true" THEN [h EXCEPT !.waiting = request.wait] ELSE h,
                        Input("send_request", message))
          /\ network' = [network EXCEPT !.inflight = Transmitted(h)]
  /\ UNCHANGED <<state, phase, codec, gameVars>>

\* A fragment in flight reaches the server; the server's Ack reaches the client.
LiveDeliver(fragment_index) ==
  /\ ~panicked
  /\ \E p \in network.inflight :
       /\ p.fragment.fragment_index = fragment_index
       /\ LET ack == AckPacket(Arrived(Reverse(p.routing_header.hops)), p.session_id,
                               fragment_index)
          IN \E h \in {ClientHandle(ack)} :
               /\ HostCommit(h, Input("packet", ack))
               /\ network' = [network EXCEPT
                                !.inflight = (@ \ {p}) \cup Transmitted(h)]
  /\ UNCHANGED <<state, phase, codec, gameVars>>

\* The first drone of its route drops a fragment in flight; the drone's
\* Nack{Dropped} reaches the client.
LiveDrop(fragment_index) ==
  /\ ~panicked
  /\ network.drops < MaxDrops
  /\ \E p \in network.inflight :
       /\ p.fragment.fragment_index = fragment_index
       /\ LET nack == NackPacket(Arrived(<<p.routing_header.hops[2], id>>), p.session_id,
                                 fragment_index, [kind |-> "Dropped"])
          IN \E h \in {ClientHandle(nack)} :
               /\ HostCommit(h, Input("packet", nack))
               /\ network' = [inflight |-> (network.inflight \ {p}) \cup Transmitted(h),
                              drops |-> network.drops + 1]
  /\ UNCHANGED <<state, phase, codec, gameVars>>

NextLive ==
  \/ Run
  \/ \E d \in Drones : LiveLearn(d)
  \/ LiveConnect
  \/ LiveCalculateRoutes
  \/ \E request \in CardRequests : LiveSendRequest(request)
  \/ \E i \in {0, 1} : LiveDeliver(i)
  \/ \E i \in {0, 1} : LiveDrop(i)

\* No fragment is dropped forever: a fragment that is in flight again and
\* again is eventually delivered.
SpecLive ==
  /\ InitLive
  /\ [][NextLive]_vars
  /\ \A i \in {0, 1} : SF_vars(LiveDeliver(i))

SessionOpen == \E r \in Retained(disassembler) : r[1] = SessionId(1, 0)

(***************************************************************************)
(* C6 as stated: once send_request has returned true for a request to the  *)
(* server, with every transmitted fragment delivered and acknowledged or   *)
(* answered by a Nack{Dropped} and none dropped forever, the disassembler  *)
(* eventually retains no fragment of the request's session.                *)
(***************************************************************************)
C6_SessionCompletesAsStated == SessionOpen ~> ~SessionOpen

(***************************************************************************)
(* C6 amended: the same, for a client whose stored routes to the server    *)
(* all start with a neighbour it holds a sender for (forward skips a       *)
(* fragment whose next hop has no sender, and nothing answers it).         *)
(***************************************************************************)
C6_SessionCompletes == (SessionOpen /\ RoutesStartConnected(4)) ~> ~SessionOpen

\* A dropped fragment was retransmitted and the session then completed.
C6_Witness ==
  /\ network.drops > 0
  /\ HandledPacket("Ack")
  /\ disassembler.last_session_id = 1
  /\ ~SessionOpen

(***************************************************************************)
(* C9 as stated: send_request(m) returns false exactly when no stored      *)
(* route ends at m.destination_id, and then emits no event, forwards no    *)
(* packet and leaves the disassembler unchanged; when it returns true it   *)
(* emits exactly one MessageSent event and forwards every fragment of m    *)
(* with a routing header ending at m.destination_id.                       *)
(***************************************************************************)
C9_SendRequestAsStated ==
  [][SendsRequest =>
       /\ ReturnsFalseCleanly
       /\ OneMessageSent
       /\ ret' = "true" => ForwardsOnlyFragments /\ ForwardsEveryFragment]_vars

(***************************************************************************)
(* C9 amended: as stated, except that when send_request returns true every *)
(* packet it forwards is a fragment of m with a routing header ending at   *)
(* m.destination_id, no fragment is forwarded twice, and every fragment is *)
(* forwarded, in order, when every stored route to the destination starts  *)
(* with a neighbour the client holds a sender for (forward skips a packet  *)
(* whose next hop has no sender).                                          *)
(***************************************************************************)
C9_SendRequest ==
  [][SendsRequest =>
       /\ ReturnsFalseCleanly
       /\ OneMessageSent
       /\ ret' = "true" =>
            /\ ForwardsOnlyFragments
            /\ \A j, k \in 1..Len(sent') : sent'[j].fragment = sent'[k].fragment => j = k
            /\ RoutesStartConnected(last'.arg.destination_id) => ForwardsEveryFragment]_vars

\* send_request returned true and forwarded both fragments of a request.
C9_Witness ==
  /\ last.op = "send_request"
  /\ ret = "true"
  /\ Len(sent) = 2
  /\ Len(events) = 1

(***************************************************************************)
(* C11: a host that floods its neighbours while one of them has dropped    *)
(* its receiver does not abort: the flood request for that neighbour is    *)
(* dropped silently and the host goes on.  (initiate_flood sends to every  *)
(* neighbour in packet_send and has no other way to fail.)                 *)
(***************************************************************************)
FloodedDisconnected ==
  /\ last.op \in {"initiate_flood", "tick"}
  /\ last.op = "tick" => last.arg.flood
  /\ packet_send \cap disconnected # {}

C11_DisconnectedSendDropped == FloodedDisconnected => ~panicked

(***************************************************************************)
(* C13: the lifecycle of a host only moves forward, Idle, Active,          *)
(* Stopping, Terminated: once Crash has set the active flag to false, no   *)
(* step (a further call of run() included) sets it to true again, and a    *)
(* host that left its event loop never enters it again.                    *)
(***************************************************************************)
Stopping == state # "Idle" /\ ~active

C13_NoReactivation ==
  [][Stopping => /\ ~active'
                 /\ state # "Active" => state' # "Active"]_vars

(***************************************************************************)
(* The TurnHandler (application/turn_handler.rs) behind its mutex.  A      *)
(* panic while the lock is held poisons the mutex, and lock().unwrap()     *)
(* panics on a poisoned mutex.                                             *)
(***************************************************************************)
\* TurnHandler::current_turn indexes nodes: out of bounds when current_turn is
\* not below nodes.len().
CurrentTurnInBounds(t) == t.current_turn < Len(t.nodes)

current_turn(t) == t.nodes[t.current_turn + 1]

\* TurnHandler::yield_turn (a remainder by zero when nodes is empty).
yield_turn(t) == [t EXCEPT !.current_turn = (@ + 1) % Len(t.nodes)]

\* A subscribe that puts the new node before the others.
subscribe_in_front(t, node) == [t EXCEPT !.nodes = <<node>> \o @]

\* TurnHandler::subscribe.
subscribe(t, node) == [t EXCEPT !.nodes = Append(@, node)]

\* TurnHandler::unsubscribe.
unsubscribe(t, node) == [t EXCEPT !.nodes = SelectSeq(@, LAMBDA x : x # node)]

Poison(t) == [t EXCEPT !.poisoned = TRUE]

(***************************************************************************)
(* The cards of a turn (client/card.rs, client/chat_client.rs): the card   *)
(* thread sends the card it plays twice on the rendezvous channel.         *)
(***************************************************************************)
GameCards == {"Yield Turn", "The Navigator", "Client List"}

\* Card::is_yield_turn.
is_yield_turn(card) == card = "Yield Turn"

\* Where the card thread is after a send of its card completed: after the
\* first send comes the second; after the second the turn ends (Yield Turn)
\* or the next card is chosen.
AfterSend(pc, card) ==
  IF pc = "send1" THEN "send2"
  ELSE IF is_yield_turn(card) THEN "yield" ELSE "choose"

\* Where the network thread of Client::run is once card.activate has returned.
activation_skips_handshake(net) == "select"

\* Client::run after card.activate(self): self.card_receiver.recv().
activation_returns(net) == "handshake"

(***************************************************************************)
(* The client with its card thread, the controller's command channel and   *)
(* a second client on the same TurnHandler.  A rendezvous send completes   *)
(* when the network thread is at a receive of the card channel: the card   *)
(* arm of the select of Client::run, or the recv that follows the          *)
(* activation; it fails when the receiver was dropped with its Client.     *)
(***************************************************************************)
\* Requests a client sends during one game.
MaxRequests == 1

HostUnchanged ==
  UNCHANGED <<kind, id, router, assembler, disassembler, packet_send, active, state,
              phase, waiting, panicked, responses, sent, events, ret, last, steps,
              disconnected, codec, network>>

\* HostCommit for a handler that is not counted in steps.
GameCommit(h, input) ==
  /\ router' = h.router
  /\ assembler' = h.assembler
  /\ disassembler' = h.disassembler
  /\ packet_send' = h.packet_send
  /\ active' = h.active
  /\ waiting' = h.waiting
  /\ panicked' = h.panicked
  /\ responses' = h.responses
  /\ sent' = h.sent
  /\ events' = h.events
  /\ ret' = h.ret
  /\ last' = input
  /\ UNCHANGED <<kind, id, disconnected, steps, state, phase, codec, network>>

\* Where the network thread of client c is.
NetAt(c) ==
  IF c # id THEN game.peer
  ELSE IF panicked THEN "Dead"
  ELSE IF state # "Active" THEN state
  ELSE IF game.net = "select" /\ ~active THEN "exiting"
  ELSE game.net

\* The Client of c, and the card receiver it owns, was dropped: its thread
\* panicked, or run() returned.
ReceiverDropped(c) == NetAt(c) \in {"Dead", "Terminated"}

Sending(c) == game.pc[c] \in {"send1", "send2"}

InitGame == HostInit /\ kind = "Client" /\ codec = NoMessage /\ network = NoTraffic

\* The card thread of c moves to pc.
Goes(c, pc) == game' = [game EXCEPT !.pc[c] = pc]

\* ClientGame::run begins: subscribe_to_turn_handler.
GameSubscribe(c) ==
  /\ game.pc[c] = "start"
  /\ IF turn_handler.poisoned
     THEN Goes(c, "panicked") /\ UNCHANGED turn_handler
     ELSE Goes(c, "poll") /\ turn_handler' = subscribe(turn_handler, c)
  /\ HostUnchanged /\ UNCHANGED controller_recv

\* The loop of ClientGame::run: is_my_turn, and handle_turn when it is (the
\* thread sleeps and asks again when it is not).
GameIsMyTurn(c) ==
  /\ game.pc[c] = "poll"
  /\ IF turn_handler.poisoned
     THEN Goes(c, "panicked") /\ UNCHANGED turn_handler
     ELSE IF ~CurrentTurnInBounds(turn_handler)
     THEN Goes(c, "panicked") /\ turn_handler' = Poison(turn_handler)
     ELSE /\ current_turn(turn_handler) = c
          /\ Goes(c, "choose") /\ UNCHANGED turn_handler
  /\ HostUnchanged /\ UNCHANGED controller_recv

\* handle_turn: the player chooses a card of the hand; the thread goes on to
\* send it.
GameChoose(c, card) ==
  /\ game.pc[c] = "choose"
  /\ card = "Client List" => disassembler.last_session_id < MaxRequests
  /\ game' = [game EXCEPT !.pc[c] = "send1", !.card[c] = card]
  /\ HostUnchanged /\ UNCHANGED <<controller_recv, turn_handler>>

\* A send on a channel whose receiver was dropped: the first send panics in
\* expect, the second makes handle_turn return true.
GameSendFails(c) ==
  /\ Sending(c) /\ ReceiverDropped(c)
  /\ Goes(c, IF game.pc[c] = "send1" THEN "panicked" ELSE "leaving")
  /\ HostUnchanged /\ UNCHANGED <<controller_recv, turn_handler>>

\* The end of handle_turn: yield_turn.
GameYield(c) ==
  /\ game.pc[c] = "yield"
  /\ IF turn_handler.poisoned
     THEN Goes(c, "panicked") /\ UNCHANGED turn_handler
     ELSE IF turn_handler.nodes = <<>>
     THEN Goes(c, "panicked") /\ turn_handler' = Poison(turn_handler)
     ELSE Goes(c, "poll") /\ turn_handler' = yield_turn(turn_handler)
  /\ HostUnchanged /\ UNCHANGED controller_recv

\* ClientGame::run after handle_turn returned true:
\* unsubscribe_from_turn_handler, and the thread ends.
GameUnsubscribe(c) ==
  /\ game.pc[c] = "leaving"
  /\ IF turn_handler.poisoned
     THEN Goes(c, "panicked") /\ UNCHANGED turn_handler
     ELSE Goes(c, "done") /\ turn_handler' = unsubscribe(turn_handler, c)
  /\ HostUnchanged /\ UNCHANGED controller_recv

\* Card::activate on the client: the hosts the activation may leave.  Client
\* List sends its request to server 4 and, when send_request returned true,
\* waits for the response.
activate(h, card) ==
  CASE card = "The Navigator" ->
         {[h EXCEPT !.router = r] : r \in calculate_routes(h.router)}
    [] card = "Client List" ->
         LET message == NewMessage(h.id, 4, client_new_session_id(h), "ReqList", ShortText)
             out == send_request([h EXCEPT !.disassembler.last_session_id = @ + 1],
                                 message)
         IN {IF out.ret = "true" THEN [out EXCEPT !.waiting = "RespList"] ELSE out}
    [] OTHER -> {h}

\* The packets that reach the client during a game: the FloodResponse of an
\* earlier flood, and the server's response to the Client List request.
GameFlood ==
  FloodResponsePacket(Arrived(<<4, 2, 1>>), SessionId(1, 0),
                      <<Trace(1, "Client"), Trace(2, "Drone"), Trace(4, "Server")>>)

GameResponse ==
  MsgFragmentPacket(Arrived(<<4, 2, 1>>), SessionOf("Client"),
                    decompose_message(NewMessage(4, 1, SessionOf("Client"), "RespList",
                                                 ShortText))[0])

\* The card arm of the select of Client::run receives what the card thread is
\* sending and activates it.
GameReceiveCard ==
  /\ kind = "Client" /\ NetAt(id) = "select" /\ Sending(id)
  /\ \E h \in activate(Host, game.card[id]) :
       /\ GameCommit(h, Input("card", game.card[id]))
       /\ game' = [game EXCEPT
                     !.pc[id] = AfterSend(@, game.card[id]),
                     !.net = IF h.waiting # "None" THEN "activating"
                             ELSE activation_returns("activating")]
  /\ UNCHANGED <<controller_recv, turn_handler>>

\* The packet arm of the select of Client::run, or of wait_for_response
\* inside an activation; the activation returns when wait_for_response does.
GamePacket(packet) ==
  /\ kind = "Client" /\ NetAt(id) \in {"select", "activating"}
  /\ packet = GameResponse => waiting # "None"
  /\ \E h \in {ClientHandle(packet)} :
       /\ GameCommit(h, Input("packet", packet))
       /\ game' = [game EXCEPT
                     !.net = IF @ = "activating" /\ h.waiting = "None"
                             THEN activation_returns(@) ELSE @]
  /\ UNCHANGED <<controller_recv, turn_handler>>

\* self.card_receiver.recv().unwrap() after the activation: it receives what
\* the card thread is sending, and panics when the card thread is gone.
GameHandshake ==
  /\ kind = "Client" /\ NetAt(id) = "handshake"
  /\ \/ /\ Sending(id)
        /\ game' = [game EXCEPT !.pc[id] = AfterSend(@, game.card[id]), !.net = "select"]
        /\ HostUnchanged
     \/ /\ game.pc[id] \in {"panicked", "done"}
        /\ GameCommit(Panic(Host), Input("handshake", NoMessage))
        /\ UNCHANGED game
  /\ UNCHANGED <<controller_recv, turn_handler>>

\* The controller sends Crash to the client.
GameDeliver ==
  /\ kind = "Client" /\ controller_recv = <<>> /\ ~panicked
  /\ state = "Idle" \/ (state = "Active" /\ active)
  /\ controller_recv' = <<[cmd |-> "Crash"]>>
  /\ HostUnchanged /\ UNCHANGED <<game, turn_handler>>

\* The command arm of the select of Client::run.
GameCommand ==
  /\ kind = "Client" /\ NetAt(id) = "select" /\ controller_recv # <<>>
  /\ \E h \in {handle_command(Host, Head(controller_recv))} :
       GameCommit(h, Input("command", Head(controller_recv)))
  /\ controller_recv' = Tail(controller_recv)
  /\ UNCHANGED <<game, turn_handler>>

\* Client::run after the loop: handle.join().unwrap() returns when the card
\* thread has ended, and panics when the card thread panicked.
ClientJoin ==
  /\ kind = "Client" /\ state = "Joining" /\ ~panicked
  /\ game.pc[id] \in {"done", "panicked"}
  /\ state' = IF game.pc[id] = "done" THEN "Terminated" ELSE state
  /\ panicked' = (game.pc[id] = "panicked")
  /\ UNCHANGED <<kind, id, router, assembler, disassembler, packet_send, active, phase,
                 waiting, responses, sent, events, ret, last, steps, disconnected,
                 codec, network, gameVars>>

\* The network thread of the other client, as far as its card thread sees it:
\* Client::run entered, a card received and activated, the handshake, the
\* loop left on Crash, and a panic that drops the Client.
PeerMoves(from, to) ==
  /\ game.peer \in from
  /\ game' = [game EXCEPT !.peer = to]
  /\ HostUnchanged /\ UNCHANGED <<controller_recv, turn_handler>>

PeerRun == PeerMoves({"Idle"}, "select")

PeerActivated == PeerMoves({"activating"}, activation_returns("activating"))

PeerCrash == PeerMoves({"select"}, "Joining")

PeerPanic == PeerMoves({"select", "activating"}, "Dead")

PeerReceives(c) ==
  /\ c # id /\ Sending(c) /\ game.peer \in {"select", "handshake"}
  /\ game' = [game EXCEPT
                !.pc[c] = AfterSend(@, game.card[c]),
                !.peer = IF @ = "select" THEN "activating" ELSE "select"]
  /\ HostUnchanged /\ UNCHANGED <<controller_recv, turn_handler>>

NextGame ==
  \/ Run
  \/ \E c \in Players : GameSubscribe(c)
  \/ \E c \in Players : GameIsMyTurn(c)
  \/ \E c \in Players, card \in GameCards : GameChoose(c, card)
  \/ \E c \in Players : GameSendFails(c)
  \/ \E c \in Players : GameYield(c)
  \/ \E c \in Players : GameUnsubscribe(c)
  \/ GameReceiveCard
  \/ \E packet \in {GameFlood, GameResponse} : GamePacket(packet)
  \/ GameHandshake
  \/ GameDeliver
  \/ GameCommand
  \/ ClientExit
  \/ ClientJoin
  \/ PeerRun
  \/ PeerActivated
  \/ PeerCrash
  \/ PeerPanic
  \/ \E c \in Players : PeerReceives(c)

\* The card thread is blocked in a send while the network thread is at its
\* select: GameReceiveCard is enabled exactly then, and it ends it.
CardWaiting == kind = "Client" /\ NetAt(id) = "select" /\ Sending(id)

\* The threads of the client take the steps they can: the select serves a
\* channel that is ready again and again (crossbeam's select picks at random
\* among the ready channels), a blocked send or recv completes once its
\* counterpart is there, and the card thread runs.  Weak fairness of
\* GameReceiveCard is written with its enabling condition, []<>~CardWaiting.
\* Nothing obliges the network to deliver a packet or the player to choose a
\* card.
GameFairness ==
  /\ SF_vars(GameCommand) /\ WF_vars(ClientExit) /\ WF_vars(ClientJoin)
  /\ []<>~CardWaiting /\ WF_vars(GameHandshake)
  /\ \A c \in Players :
       /\ WF_vars(GameSubscribe(c)) /\ WF_vars(GameIsMyTurn(c))
       /\ WF_vars(GameSendFails(c)) /\ WF_vars(GameYield(c))
       /\ WF_vars(GameUnsubscribe(c))

SpecGame == InitGame /\ [][NextGame]_vars /\ GameFairness

(***************************************************************************)
(* C12: a Crash command delivered to an Active client is followed by the   *)
(* exit of its event loop, in whatever state the command finds the client: *)
(* waiting in select, executing a card, or blocked in wait_for_response.   *)
(***************************************************************************)
CrashDelivered == controller_recv # <<>> /\ Head(controller_recv).cmd = "Crash"

InEventLoop == state = "Active" /\ ~panicked

C12_CrashStopsHost == (CrashDelivered /\ InEventLoop) ~> ~InEventLoop

(***************************************************************************)
(* C14: after the event loop of a client has exited on Crash, its card     *)
(* thread sees the rendezvous channel disconnected and ends, the join on   *)
(* the card thread completes and Client::run returns.                      *)
(***************************************************************************)
C14_RunReturns == (state = "Joining" /\ ~panicked) ~> (state = "Terminated")

(***************************************************************************)
(* C15: for every card played, the first rendezvous send completes by      *)
(* starting the card's activation on the network thread, and the second    *)
(* send completes only after that activation has returned: the card thread *)
(* does not go on to the next prompt, to yielding the turn or to the next  *)
(* card before.                                                            *)
(***************************************************************************)
FirstSendCompletes(c) == game.pc[c] = "send1" /\ game'.pc[c] = "send2"

SecondSendCompletes(c) == game.pc[c] = "send2" /\ game'.pc[c] \in {"choose", "yield"}

\* The step is the activation of the card of c by its network thread.
StartsActivation(c) ==
  /\ NetAt(c) = "select"
  /\ NetAt(c)' \in {"activating", "handshake"}
  /\ c = id => last' = Input("card", game.card[c])

\* The network thread of c is past the activation, at the recv that follows
\* it, and the step runs no handler.
ActivationReturned(c) ==
  /\ NetAt(c) = "handshake"
  /\ NetAt(c)' = "select"
  /\ c = id => waiting = "None" /\ UNCHANGED <<router, disassembler, assembler, last>>

C15_CardHandshake ==
  [][\A c \in Players :
       /\ FirstSendCompletes(c) => StartsActivation(c)
       /\ SecondSendCompletes(c) => ActivationReturned(c)]_vars

\* The client's card thread went on after a Client List card whose
\* activation waited for the server's response.
C15_Witness ==
  /\ game.pc[id] = "choose" /\ game.card[id] = "Client List"
  /\ game.net = "select" /\ waiting = "None"
  /\ HandledPacket("MsgFragment") /\ last.waiting = "RespList"

(***************************************************************************)
(* C16: with the clients of distinct ids sharing one TurnHandler, at most  *)
(* one card thread is inside handle_turn at any time, whatever the         *)
(* interleaving of subscribe, is_my_turn, yield_turn and unsubscribe; the  *)
(* thread inside handle_turn is the one the TurnHandler names.             *)
(***************************************************************************)
InHandleTurn(c) == game.pc[c] \in {"choose", "send1", "send2", "yield"}

C16_OneTurnAtATime ==
  /\ Cardinality({c \in Players : InHandleTurn(c)}) <= 1
  /\ \A c \in Players :
       InHandleTurn(c) =>
         CurrentTurnInBounds(turn_handler) /\ current_turn(turn_handler) = c

\* The turn was yielded to the second subscriber, which plays a card while
\* the first one polls.
C16_Witness ==
  /\ Len(turn_handler.nodes) = Cardinality(Players)
  /\ turn_handler.current_turn = 1
  /\ \E c, d \in Players : game.pc[c] = "send2" /\ game.pc[d] = "poll"

(***************************************************************************)
(* The router on its own: the public operations of SourceRouter applied in *)
(* any order to a router that has learned a topology.  Node 1 is the       *)
(* router's own client, 2, 3 and 6 are drones, 4 is a server, 5 a client.  *)
(***************************************************************************)
MaxRouterSteps == 3

\* Three drones between the client and the server, and a link between two of
\* the drones.
ThreeDrones ==
  <<AddNode(2, NodeTypeNew("Drone")), AddNode(3, NodeTypeNew("Drone")),
    AddNode(6, NodeTypeNew("Drone")), AddNode(4, NodeTypeNew("Server")),
    AddEdge(1, 2), AddEdge(2, 4), AddEdge(1, 3), AddEdge(3, 4),
    AddEdge(1, 6), AddEdge(6, 4), AddEdge(2, 3)>>

\* A second client between the drone and the server.
HostInBetween ==
  <<AddNode(2, NodeTypeNew("Drone")), AddNode(5, NodeTypeNew("Client")),
    AddNode(4, NodeTypeNew("Server")),
    AddEdge(1, 2), AddEdge(2, 5), AddEdge(5, 4), AddEdge(2, 4)>>

\* latest_deliveries with the given number of Dropped among total outcomes.
History(dropped, total) ==
  [i \in 1..total |-> IF i <= dropped THEN "Dropped" ELSE "Forwarded"]

\* A route through one drone and a route through two drones that cost the
\* same: with 16 of 27, 26 of 89 and 14 of 37 deliveries dropped, NodeType::cost
\* gives 1.26591039 for drone 2 and 0.548608124 + 0.717302263 = 1.26591039 for
\* drones 3 and 6 in f32 arithmetic.
TiedCosts ==
  <<AddNode(2, DroneWith(History(16, 27))), AddNode(3, DroneWith(History(26, 89))),
    AddNode(6, DroneWith(History(14, 37))), AddNode(4, NodeTypeNew("Server")),
    AddEdge(1, 2), AddEdge(2, 4), AddEdge(1, 3), AddEdge(3, 6), AddEdge(6, 4)>>

Topologies == {ThreeDrones, HostInBetween}

\* The application of the router's own node: the chat client's, and the
\* Unknown of a node whose application is not given.
OwnApps == {"Chat", "Unknown"}

\* request_count at the start: a new router's, and the last value before the
\* counter wraps (the model keeps 30 bits of the usize; 2^30 and 2^64 leave
\* the same remainders by 2 and by 3).
RequestCounts == {0, 2 ^ 30 - 1}

\* SourceRouter::new followed by the updates that teach it the topology.
LearnedRouter(app, topology, request_count) ==
  [apply_all(NewRouter(1, HostType("Client", app)), topology)
     EXCEPT !.request_count = request_count]

InitRouter ==
  /\ kind = "Client"
  /\ id = 1
  /\ router \in {LearnedRouter(app, topology, count) :
                   app \in OwnApps, topology \in Topologies, count \in RequestCounts}
  /\ assembler = EmptyMap
  /\ disassembler = NewDisassembler
  /\ packet_send = {2}
  /\ active = FALSE
  /\ state = "Idle"
  /\ phase = "packets"
  /\ waiting = "None"
  /\ panicked = FALSE
  /\ responses = EmptyMap
  /\ sent = <<>>
  /\ events = <<>>
  /\ ret = "none"
  /\ last = [op |-> "new", arg |-> NoMessage, waiting |-> "None"]
  /\ steps = 0
  /\ disconnected = {}
  /\ controller_recv = <<>>
  /\ game = NewGame
  /\ turn_handler = NewTurnHandler
  /\ codec = NoMessage
  /\ network = NoTraffic

RouterCommit(r, op, arg) ==
  /\ steps < MaxRouterSteps
  /\ router' = r
  /\ last' = Input(op, arg)
  /\ steps' = steps + 1
  /\ UNCHANGED <<kind, id, assembler, disassembler, packet_send, active, state, phase,
                 waiting, panicked, responses, sent, events, ret, disconnected,
                 codec, network, gameVars>>

\* The links the edge operations are given, in both orientations.
RouterLinks == {<<1, 2>>, <<2, 4>>, <<4, 2>>, <<2, 3>>, <<3, 2>>}

\* The deliveries MEMORY_SIZE / 10 Nacks of kind Dropped record for a drone.
LossyHistory == [i \in 1..(MEMORY_SIZE \div 10) |-> "Dropped"]

\* The nodes add_node is given.
RouterNodes ==
  {<<2, DroneWith(LossyHistory)>>, <<4, HostType("Server", "Unknown")>>,
   <<4, HostType("Server", "Chat")>>}

\* The packets update_graph is given: drone 2 reports that it has no link to
\* drone 3; a fragment of the server arrives through drone 3.
RouterPackets ==
  {NackPacket(Header(<<2, 1>>, 1), SessionId(1, 0), 0, [kind |-> "ErrorInRouting", id |-> 3]),
   AckPacket(Header(<<4, 3, 1>>, 2), SessionId(1, 0), 0)}

RouterDestinations == {4, 5}

\* The value returned is the number of routes stored.
RouterCalculateRoutes ==
  \E r \in calculate_routes(router) :
    RouterCommit(r, "calculate_routes", [count |-> Len(r.routes)])

RouterUpdateGraph(packet) ==
  \E r \in {update_graph(router, packet)} : RouterCommit(r, "update_graph", packet)

RouterAddEdge(from, to) ==
  \E r \in {router_add_edge(router, from, to)} :
    RouterCommit(r, "add_edge", [from |-> from, to |-> to])

RouterRemoveEdge(from, to) ==
  \E r \in {router_remove_edge(router, from, to)} :
    RouterCommit(r, "remove_edge", [from |-> from, to |-> to])

RouterAddNode(n, node_type) ==
  \E r \in {router_add_node(router, n, node_type)} :
    RouterCommit(r, "add_node", [id |-> n, node_type |-> node_type])

RouterUnwantedNode(n) ==
  \E r \in {unwanted_node(router, n)} : RouterCommit(r, "unwanted_node", [id |-> n])

RouterForgetTopology ==
  \E r \in {forget_topology(router)} : RouterCommit(r, "forget_topology", NoMessage)

RouterGetBestRoute(destination) ==
  \E out \in {get_best_route(router, destination)} :
    RouterCommit(out.router, "get_best_route",
                 [destination |-> destination, route |-> out.route])

NextRouter ==
  \/ RouterCalculateRoutes
  \/ \E packet \in RouterPackets : RouterUpdateGraph(packet)
  \/ \E link \in RouterLinks : RouterAddEdge(link[1], link[2])
  \/ \E link \in RouterLinks : RouterRemoveEdge(link[1], link[2])
  \/ \E node \in RouterNodes : RouterAddNode(node[1], node[2])
  \/ \E n \in RouterDestinations : RouterUnwantedNode(n)
  \/ RouterForgetTopology
  \/ \E destination \in RouterDestinations : RouterGetBestRoute(destination)

SpecRouter == InitRouter /\ [][NextRouter]_vars

\* The router operations applied to a router that has learned the topology
\* with two routes of the same cost.
InitTies ==
  /\ kind = "Client"
  /\ id = 1
  /\ router \in {LearnedRouter(app, TiedCosts, 0) : app \in OwnApps}
  /\ assembler = EmptyMap
  /\ disassembler = NewDisassembler
  /\ packet_send = {2}
  /\ active = FALSE
  /\ state = "Idle"
  /\ phase = "packets"
  /\ waiting = "None"
  /\ panicked = FALSE
  /\ responses = EmptyMap
  /\ sent = <<>>
  /\ events = <<>>
  /\ ret = "none"
  /\ last = [op |-> "new", arg |-> NoMessage, waiting |-> "None"]
  /\ steps = 0
  /\ disconnected = {}
  /\ controller_recv = <<>>
  /\ game = NewGame
  /\ turn_handler = NewTurnHandler
  /\ codec = NoMessage
  /\ network = NoTraffic

SpecTies == InitTies /\ [][NextRouter]_vars

(***************************************************************************)
(* C17: in every reachable router state every stored route has pairwise    *)
(* distinct node ids, starts at the router's own id, ends at a host, has   *)
(* exactly two hosts, its endpoints, with only drones in between, and has  *)
(* a cost of at least 0.                                                   *)
(***************************************************************************)
IsHost(g, n) == HasNode(g, n) /\ g.nodes[n].kind # "Drone"

WellFormedRoute(r, route) ==
  /\ Len(route) >= 2
  /\ \A i, j \in 1..Len(route) : route[i] = route[j] => i = j
  /\ \A i \in 1..Len(route) : HasNode(r.graph, route[i])
  /\ route[1] = r.source_id
  /\ IsHost(r.graph, route[1])
  /\ IsHost(r.graph, RouteDestination(route))
  /\ \A i \in 2..(Len(route) - 1) : ~IsHost(r.graph, route[i])
  /\ RouteCost(r.graph, route) >= 0

C17_RoutesWellFormed ==
  \A i \in 1..Len(router.routes) : WellFormedRoute(router, router.routes[i])

\* Routes are stored, one of them through two drones, in a graph that has a
\* host next to a drone of a route or a drone with a lossy history, after an
\* operation that followed calculate_routes.
C17_Witness ==
  /\ last.op \in {"add_node", "unwanted_node", "update_graph", "remove_edge"}
  /\ Len(router.routes) >= 2
  /\ \/ \E i \in 1..Len(router.routes) : Len(router.routes[i]) = 4
     \/ HasNode(router.graph, 5)

(***************************************************************************)
(* C18: if exactly k stored routes to destination d share the minimum      *)
(* cost, then k consecutive get_best_route(d) calls, with no other router  *)
(* operation in between, return each of those k routes exactly once,       *)
(* cycling in stored order, for every starting value of request_count.     *)
(***************************************************************************)
\* The stored routes to the destination whose cost is the least, in stored
\* order.
MinimumRoutes(r, destination) ==
  LET routes == RoutesTo(r, destination)
  IN SelectSeq(routes, LAMBDA a :
       \A i \in 1..Len(routes) : RouteCost(r.graph, a) <= RouteCost(r.graph, routes[i]))

\* What n consecutive get_best_route(destination) calls return.
RECURSIVE ConsecutiveBestRoutes(_, _, _)
ConsecutiveBestRoutes(r, destination, n) ==
  IF n = 0 THEN <<>>
  ELSE LET out == get_best_route(r, destination)
       IN <<out.route>> \o ConsecutiveBestRoutes(out.router, destination, n - 1)

RoundRobinOver(r, destination) ==
  LET minimum == MinimumRoutes(r, destination)
      k       == Len(minimum)
      calls   == ConsecutiveBestRoutes(r, destination, k)
  IN \E offset \in 0..(k - 1) :
       \A i \in 1..k : calls[i] = minimum[((offset + i - 1) % k) + 1]

C18_RoundRobin ==
  \A destination \in RouterDestinations :
    can_reach(router, destination) => RoundRobinOver(router, destination)

(***************************************************************************)
(* C19: after remove_edge(from, to), issued directly or by the RemoveEdge  *)
(* update of a Nack ErrorInRouting, no stored route has from, to or to,    *)
(* from as consecutive hops, so get_best_route returns no route over that  *)
(* link in either direction.                                               *)
(***************************************************************************)
RouteOver(route, from, to) ==
  contains_edge(route, from, to) \/ contains_edge(route, to, from)

NoRouteOver(r, from, to) ==
  \A i \in 1..Len(r.routes) : ~RouteOver(r.routes[i], from, to)

RemovedByNack(packet) ==
  /\ packet.pack_type = "Nack"
  /\ packet.nack_type.kind = "ErrorInRouting"

C19_RemovedEdgeUnrouted ==
  /\ last.op = "remove_edge" => NoRouteOver(router, last.arg.from, last.arg.to)
  /\ (last.op = "update_graph" /\ RemovedByNack(last.arg)) =>
       NoRouteOver(router, last.arg.routing_header.hops[1], last.arg.nack_type.id)

(***************************************************************************)
(* C20: once unwanted_node(n) has marked a known host n, n's app is        *)
(* Unwanted and no stored route ends at n, and no later add_node or        *)
(* calculate_routes stores a route ending at n again, whatever the app     *)
(* of the router's own node, until forget_topology.                        *)
(***************************************************************************)
Unwanted(r, n) == IsHost(r.graph, n) /\ r.graph.nodes[n].app = "Unwanted"

C20_UnwantedStaysUnrouted ==
  /\ (last.op = "unwanted_node" /\ IsHost(router.graph, last.arg.id)) =>
       Unwanted(router, last.arg.id)
  /\ \A n \in RouterDestinations : Unwanted(router, n) => ~can_reach(router, n)

(***************************************************************************)
(* Session ids at their full width.  A u64 is kept as its high byte and    *)
(* the two 28-bit halves of its low 56 bits, so that the values around     *)
(* 2^56 and 2^64 can be written; below 2^56 this is SessionId(hi, lo) with *)
(* lo = mid * 2^28 + low.                                                  *)
(***************************************************************************)
HalfWord == 2 ^ 28

Wide(hi, mid, low) == [hi |-> hi, mid |-> mid, low |-> low]

\* u64 + 1; overflow is TRUE when the sum does not fit.
WideSucc(w) ==
  IF w.low + 1 < HalfWord THEN [value |-> Wide(w.hi, w.mid, w.low + 1), overflow |-> FALSE]
  ELSE IF w.mid + 1 < HalfWord THEN [value |-> Wide(w.hi, w.mid + 1, 0), overflow |-> FALSE]
  ELSE IF w.hi + 1 < 256 THEN [value |-> Wide(w.hi + 1, 0, 0), overflow |-> FALSE]
  ELSE [value |-> Wide(0, 0, 0), overflow |-> TRUE]

\* Bitwise or of two bytes.
RECURSIVE BitOr(_, _)
BitOr(a, b) ==
  IF a = 0 THEN b
  ELSE IF b = 0 THEN a
  ELSE (IF a % 2 = 1 \/ b % 2 = 1 THEN 1 ELSE 0) + 2 * BitOr(a \div 2, b \div 2)

\* Disassembler::transform_session_id: (node_id as u64) << 56 | session_id.
transform_session_id_wide(session_id, node_id) ==
  [session_id EXCEPT !.hi = BitOr(node_id, @)]

\* Disassembler::new_session_id on the counter c: the id it returns and the
\* counters it may leave.  `+= 1` on u64::MAX panics in a build with overflow
\* checks and wraps in one without.
new_session_id_wide(c) ==
  LET next == WideSucc(c)
  IN [session_id |-> c,
      after      |-> IF next.overflow THEN {[counter |-> next.value, panicked |-> FALSE],
                                            [counter |-> c, panicked |-> TRUE]}
                     ELSE {[counter |-> next.value, panicked |-> FALSE]}]

MaxMints == 4

\* The hosts that mint session ids.
MintingHosts == {1, 2, 4, 5, 128}

\* The counter at the start: a new Disassembler's, and values shortly before
\* the counter reaches 2^28, 2^56 and 2^64.
StartCounters ==
  {Wide(0, 0, 0), Wide(0, 0, HalfWord - 2), Wide(0, HalfWord - 1, HalfWord - 2),
   Wide(1, HalfWord - 1, HalfWord - 2), Wide(255, HalfWord - 1, HalfWord - 2)}

\* Client::new for the host: its Disassembler's counter and the ids minted.
InitSession ==
  /\ kind = "Client"
  /\ id \in MintingHosts
  /\ codec \in {[last_session_id |-> c, minted |-> <<>>] : c \in StartCounters}
  /\ router = NewRouter(id, HostType(kind, "Chat"))
  /\ assembler = EmptyMap
  /\ disassembler = NewDisassembler
  /\ packet_send = {2}
  /\ active = FALSE
  /\ state = "Idle"
  /\ phase = "packets"
  /\ waiting = "None"
  /\ panicked = FALSE
  /\ responses = EmptyMap
  /\ sent = <<>>
  /\ events = <<>>
  /\ ret = "none"
  /\ last = [op |-> "new", arg |-> NoMessage, waiting |-> "None"]
  /\ steps = 0
  /\ disconnected = {}
  /\ controller_recv = <<>>
  /\ game = NewGame
  /\ turn_handler = NewTurnHandler
  /\ network = NoTraffic

\* Client::new_session_id.
MintSessionId ==
  /\ ~panicked /\ Len(codec.minted) < MaxMints
  /\ \E out \in {new_session_id_wide(codec.last_session_id)} :
       \E after \in out.after :
         /\ panicked' = after.panicked
         /\ codec' = [last_session_id |-> after.counter,
                      minted |-> IF after.panicked THEN codec.minted
                                 ELSE Append(codec.minted,
                                             transform_session_id_wide(out.session_id, id))]
  /\ UNCHANGED <<kind, id, router, assembler, disassembler, packet_send, active, state,
                 phase, waiting, responses, sent, events, ret, last, steps, disconnected,
                 network, gameVars>>

NextSession == MintSessionId

SpecSession == InitSession /\ [][NextSession]_vars

(***************************************************************************)
(* C21: the session ids one host mints through new_session_id are pairwise *)
(* unequal, their low 56 bits increase strictly, and the high byte of each *)
(* is the host's NodeId, for every value the counter can reach.            *)
(***************************************************************************)
LowLess(a, b) == a.mid < b.mid \/ (a.mid = b.mid /\ a.low < b.low)

C21_SessionIdsUnique ==
  \A i, j \in 1..Len(codec.minted) :
    /\ codec.minted[i].hi = id
    /\ i < j => /\ codec.minted[i] # codec.minted[j]
                /\ LowLess(codec.minted[i], codec.minted[j])

(***************************************************************************)
(* C22: for a message whose serialization has L > 0 bytes, disassembly     *)
(* produces n = ceil(L / D) fragments with indices 0..n-1 and total n;     *)
(* fragments 0..n-2 have length D, fragment n-1 has length L - (n-1) * D,  *)
(* and fragment i carries bytes [i * D, min((i+1) * D, L)) of the          *)
(* serialization followed by zero padding.                                 *)
(***************************************************************************)
ExpectedLayout(bytes, fragments) ==
  LET L == Len(bytes)
      D == FRAGMENT_DSIZE
      n == (L + D - 1) \div D
  IN /\ L > 0
     /\ Len(fragments) = n
     /\ \A i \in 0..(n - 1) :
          LET f == fragments[i + 1]
          IN /\ f.fragment_index = i
             /\ f.total_n_fragments = n
             /\ f.length = IF i < n - 1 THEN D ELSE L - (n - 1) * D
             /\ Len(f.data) = D
             /\ \A k \in 1..D :
                  f.data[k] = IF i * D + k <= L THEN bytes[i * D + k] ELSE 0

C22_FragmentLayout ==
  codec.tag = "Run" => ExpectedLayout(Serialize(codec.message), codec.fragments)

\* A serialization one byte longer than a fragment: a full fragment and a
\* last fragment of one byte, both inserted into the assembler.
C22_Witness ==
  /\ codec.tag = "Run"
  /\ Len(Serialize(codec.message)) = FRAGMENT_DSIZE + 1
  /\ Len(codec.fragments) = 2
  /\ codec.fragments[2].length = 1
  /\ codec.inserted = {0, 1}

(***************************************************************************)
(* The codec with duplicates: a fragment already inserted is inserted      *)
(* again, as when a fragment is delivered twice.                           *)
(***************************************************************************)
\* Assembler::insert_fragment of a fragment equal to one stored for the
\* session.
CodecReinsert(index) ==
  /\ codec.tag = "Run"
  /\ index \in codec.inserted
  /\ \A k \in 1..Len(codec.results) : codec.results[k].tag # "Panic"
  /\ \E ins \in {insert_fragment(codec.assembler, "Response", codec.message.session_id,
                                 codec.fragments[index + 1])} :
       /\ codec' = [codec EXCEPT !.assembler = ins.assembler]
       /\ last' = Input("reinsert", [before |-> codec.assembler, after |-> ins.assembler,
                                     fragment |-> codec.fragments[index + 1],
                                     result |-> ins.result])
  /\ UNCHANGED <<kind, id, router, assembler, disassembler, packet_send, active, state,
                 phase, waiting, panicked, responses, sent, events, ret, steps,
                 disconnected, network, gameVars>>

NextReinsert ==
  \/ \E index \in 0..(NFragmentsOf(MaxPad + 7) - 1) : CodecInsert(index)
  \/ \E index \in 0..(NFragmentsOf(MaxPad + 7) - 1) : CodecReinsert(index)

SpecReinsert == InitCodec /\ [][NextReinsert]_vars

(***************************************************************************)
(* C23: inserting a fragment identical to one already stored for the same  *)
(* session leaves the assembler's stored state unchanged and returns None  *)
(* whenever the session is still incomplete.                               *)
(***************************************************************************)
\* The session holds fewer fragments than the fragment's total.
Incomplete(stored, session_id, fragment) ==
  Cardinality(DOMAIN stored[session_id]) < fragment.total_n_fragments

C23_DuplicateInsert ==
  last.op = "reinsert" =>
    /\ last.arg.after = last.arg.before
    /\ Incomplete(last.arg.before, codec.message.session_id, last.arg.fragment) =>
         last.arg.result.tag = "None"

\* The first of two fragments was inserted twice before the second.
C23_Witness ==
  /\ last.op = "reinsert"
  /\ last.arg.fragment.total_n_fragments = 2
  /\ Incomplete(last.arg.before, codec.message.session_id, last.arg.fragment)
  /\ codec.inserted = {0}

(***************************************************************************)
(* The client inside wait_for_response: it learns the topology, a card     *)
(* sends the Client List request and waits for its response, and packets   *)
(* arrive while it waits.                                                  *)
(***************************************************************************)
MaxWaitSteps == 6

BeforeWait ==
  /\ kind = "Client" /\ state = "Active" /\ ~panicked /\ active
  /\ waiting = "None" /\ disassembler.last_session_id = 0
  /\ steps < MaxWaitSteps

\* A FloodResponse of an earlier flood reaches the client.
WaitLearn ==
  /\ BeforeWait /\ last.op = "new"
  /\ \E h \in {handle_packet_normal(Host, GameFlood)} :
       Commit(h, Input("packet", GameFlood))
  /\ UNCHANGED <<state, phase>>

\* The Navigator card.
WaitCalculateRoutes ==
  /\ BeforeWait /\ last.op = "packet"
  /\ \E r \in calculate_routes(router) :
       Commit([Host EXCEPT !.router = r], Input("calculate_routes", NoMessage))
  /\ UNCHANGED <<state, phase>>

\* The Client List card: send_request and, as it returned true,
\* wait_for_response for the RespList response.
WaitSendRequest ==
  /\ BeforeWait /\ last.op = "calculate_routes"
  /\ LET message == NewMessage(id, 4, client_new_session_id(Host), "ReqList", ShortText)
     IN \E h \in {send_request([Host EXCEPT !.disassembler.last_session_id = @ + 1],
                                message)} :
          Commit(IF h.ret = "true" THEN [h EXCEPT !.waiting = "RespList"] ELSE h,
                 Input("send_request", message))
  /\ UNCHANGED <<state, phase>>

\* What arrives while the client waits: the response it waits for, responses
\* of other sessions in one and in two fragments, the server's refusal, the
\* Ack of the request and a Nack for it.
WaitMessages ==
  {NewMessage(4, 1, SessionId(1, 0), "RespList", ShortText),
   NewMessage(4, 1, SessionId(1, 1), "RespText", ShortText),
   NewMessage(4, 1, SessionId(1, 2), "RespText", LongText)}

WaitPackets ==
  UNION {{MsgFragmentPacket(Arrived(<<4, 2, 1>>), m.session_id, f) :
            f \in Range(MapValues(decompose_message(m)))} : m \in WaitMessages}
  \cup {NackPacket(Arrived(<<4, 2, 1>>), SessionId(1, 0), 0,
                   [kind |-> "UnexpectedRecipient", id |-> 4]),
        NackPacket(Arrived(<<2, 1>>), SessionId(1, 0), 0, [kind |-> "Dropped"]),
        AckPacket(Arrived(<<4, 2, 1>>), SessionId(1, 0), 0)}

\* recv(self.packet_recv) inside wait_for_response.
WaitPacket(packet) ==
  /\ kind = "Client" /\ state = "Active" /\ ~panicked /\ waiting # "None"
  /\ steps < MaxWaitSteps
  /\ \E h \in {wait_for_response_packet(Host, packet)} :
       Commit(h, Input("packet", packet))
  /\ UNCHANGED <<state, phase>>

NextWait ==
  \/ Run
  \/ WaitLearn
  \/ WaitCalculateRoutes
  \/ WaitSendRequest
  \/ \E packet \in WaitPackets : WaitPacket(packet)

SpecWait == InitLive /\ [][NextWait]_vars

(***************************************************************************)
(* C24: wait_for_response(predicate) returns Ok(m) only for the first      *)
(* reassembled response m that satisfies predicate, without passing m to   *)
(* on_response_received; every response reassembled before it that does   *)
(* not satisfy predicate is passed to on_response_received; and it returns *)
(* Err as soon as a Nack UnexpectedRecipient is received, after that nack  *)
(* has been handled normally.                                              *)
(***************************************************************************)
InWait == kind = "Client" /\ state = "Active" /\ ~panicked /\ waiting # "None"

\* The responses whose reassembly the step completed.
Reassembled(evs) == SelectSeq(evs, LAMBDA e : e.event = "MessageReceived")

Passed(rs, session_id) == IF session_id \in DOMAIN rs THEN rs[session_id] ELSE 0

IsRefusal(packet) ==
  packet.pack_type = "Nack" /\ packet.nack_type.kind = "UnexpectedRecipient"

WaitStep ==
  LET packet == last'.arg
      done   == Reassembled(events')
  IN /\ ret' = "Ok" <=>
          (done # <<>> /\ done[1].message.content.variant = waiting)
     /\ ret' = "Ok" => (responses' = responses /\ waiting' = "None")
     /\ (done # <<>> /\ done[1].message.content.variant # waiting) =>
          /\ waiting' = waiting
          /\ Passed(responses', done[1].message.session_id)
               = Passed(responses, done[1].message.session_id) + 1
     /\ ret' = "Err" <=> IsRefusal(packet)
     /\ ret' = "Err" =>
          /\ waiting' = "None"
          /\ router' = handle_packet_normal(Host, packet).router
     /\ ret' \notin {"Ok", "Err"} => waiting' = waiting

C24_WaitForResponse == [][InWait => WaitStep]_vars

\* wait_for_response returned Ok after a response of another session had been
\* reassembled and passed to on_response_received.
C24_Witness ==
  /\ ret = "Ok" /\ waiting = "None" /\ HandledPacket("MsgFragment")
  /\ Passed(responses, SessionId(1, 2)) = 1
  /\ Passed(responses, SessionId(1, 0)) = 0

(***************************************************************************)
(* C25: after a message completes reassembly at a host, client or server,  *)
(* the host has emitted MessageReceived and its assembler retains no       *)
(* fragment of that session id.                                            *)
(***************************************************************************)
\* The step handles a fragment whose insertion completes a message, and the
\* handler returns.
CompletesReassembly ==
  /\ last'.op = "packet" /\ last'.arg.pack_type = "MsgFragment"
  /\ ~panicked'
  /\ insert_fragment(assembler, InboundType, last'.arg.session_id,
                     last'.arg.fragment).result.tag = "Ok"

C25_ReassembledForgotten ==
  [][CompletesReassembly =>
       /\ Reassembled(events') # <<>>
       /\ last'.arg.session_id \notin DOMAIN assembler']_vars

(***************************************************************************)
(* C26: the Ack a host sends for a received MsgFragment carries as routing *)
(* header the reversal of the hop list of the fragment's routing header,   *)
(* first hop the host itself and last hop the fragment's source, for       *)
(* clients as well as servers and whatever routes the router stores.       *)
(***************************************************************************)
AcksSent == SentOfType("Ack")

C26_AckAlongReversedRoute ==
  (HandledPacket("MsgFragment") /\ ~panicked) =>
    \A i \in 1..Len(AcksSent) :
      AcksSent[i].routing_header.hops = Reverse(last.arg.routing_header.hops)

(***************************************************************************)
(* C27: when the fragment a server handles makes reassembly of its session *)
(* fail as malformed (the bytes are not valid UTF-8, or do not parse as a  *)
(* request), the server forwards exactly one Nack, an                      *)
(* UnexpectedRecipient(self.id) for that session along the reversal of the *)
(* fragment's route, emits no MessageReceived or MessageSent event (it     *)
(* does not reach handle_request) and forwards no response fragment.       *)
(***************************************************************************)
FailsReassembly ==
  /\ kind = "Server"
  /\ last'.op = "packet" /\ last'.arg.pack_type = "MsgFragment"
  /\ NeighboursConnected'
  /\ insert_fragment(assembler, InboundType, last'.arg.session_id,
                     last'.arg.fragment).result.tag \in {"Err", "Panic"}

NacksSent == SentOfType("Nack")

RefusedAlongReversedRoute ==
  /\ Len(NacksSent') = 1
  /\ NacksSent'[1].session_id = last'.arg.session_id
  /\ NacksSent'[1].nack_type = [kind |-> "UnexpectedRecipient", id |-> id]
  /\ NacksSent'[1].routing_header.hops = Reverse(last'.arg.routing_header.hops)
  /\ SentOfType("MsgFragment")' = <<>>
  /\ events' = <<>>

C27_MalformedRefused == [][FailsReassembly => RefusedAlongReversedRoute]_vars

(***************************************************************************)
(* C28: in every reachable router state, also after drone histories have   *)
(* changed since the last calculate_routes, get_best_route(destination)    *)
(* returns a stored route to the destination whose summed cost, as the     *)
(* graph stands, is the least among the stored routes to it, and returns   *)
(* None exactly when no stored route ends at the destination.              *)
(***************************************************************************)
C28_BestRouteMinimal ==
  last.op = "get_best_route" =>
    LET routes == RoutesTo(router, last.arg.destination)
    IN IF routes = <<>> THEN last.arg.route = <<>>
       ELSE \E i \in 1..Len(routes) :
              /\ last.arg.route = routes[i]
              /\ \A j \in 1..Len(routes) :
                   RouteCost(router.graph, routes[i]) <= RouteCost(router.graph, routes[j])

(***************************************************************************)
(* C29: immediately after calculate_routes the stored routes are exactly,  *)
(* each once, the simple paths of the current graph that start at the      *)
(* router's own node and end at a host of the opposite kind whose          *)
(* application is compatible with the own node's, with only drones in      *)
(* between; the value returned is the number of stored routes.             *)
(***************************************************************************)
\* The paths of the graph with n nodes: no node twice, a link between every
\* two consecutive nodes.
SimplePaths(g, n) ==
  {p \in [1..n -> DOMAIN g.nodes] :
     /\ \A i, j \in 1..n : p[i] = p[j] => i = j
     /\ \A i \in 1..(n - 1) : HasEdge(g, p[i], p[i + 1])}

\* Two applications are compatible when neither is Unwanted and either one is
\* Unknown or they are equal.
CompatibleApps(a, b) ==
  /\ a # "Unwanted" /\ b # "Unwanted"
  /\ a = "Unknown" \/ b = "Unknown" \/ a = b

OppositeKind(a, b) ==
  \/ a.kind = "Client" /\ b.kind = "Server"
  \/ a.kind = "Server" /\ b.kind = "Client"

WantedPaths(r) ==
  LET g    == r.graph
      self == g.nodes[r.source_id]
  IN {p \in UNION {SimplePaths(g, n) : n \in 2..Cardinality(DOMAIN g.nodes)} :
        /\ p[1] = r.source_id
        /\ OppositeKind(self, g.nodes[RouteDestination(p)])
        /\ CompatibleApps(self.app, g.nodes[RouteDestination(p)].app)
        /\ \A i \in 2..(Len(p) - 1) : g.nodes[p[i]].kind = "Drone"}

C29_RoutesAreWantedPaths ==
  last.op = "calculate_routes" =>
    /\ Range(router.routes) = WantedPaths(router)
    /\ \A i, j \in 1..Len(router.routes) :
         router.routes[i] = router.routes[j] => i = j
    /\ last.arg.count = Len(router.routes)

(***************************************************************************)
(* C30: immediately after calculate_routes the stored routes are in        *)
(* ascending order of summed cost, and routes of equal cost are in the     *)
(* order of their discovery: the route of the shorter level first, and     *)
(* within a level in the order in which the routes were generated.         *)
(***************************************************************************)
\* The position of the route in its level of the breadth-first search.
GeneratedAt(g, source_id, route) ==
  LET level == RouteLevels(g, <<(<<(<<source_id>>)>>)>>)[Len(route)]
  IN CHOOSE i \in 1..Len(level) : level[i] = route

DiscoveredBefore(r, a, b) ==
  \/ Len(a) < Len(b)
  \/ /\ Len(a) = Len(b)
     /\ GeneratedAt(r.graph, r.source_id, a) < GeneratedAt(r.graph, r.source_id, b)

C30_SortedByCostThenDiscovery ==
  last.op = "calculate_routes" =>
    \A i, j \in 1..Len(router.routes) :
      i < j =>
        LET a == router.routes[i]
            b == router.routes[j]
        IN /\ RouteCost(router.graph, a) <= RouteCost(router.graph, b)
           /\ RouteCost(router.graph, a) = RouteCost(router.graph, b)
                => DiscoveredBefore(router, a, b)

(***************************************************************************)
(* add_node on its own: nodes of every kind and application are added      *)
(* under ids the router knows (drone 2, server 4) and under a new id.      *)
(***************************************************************************)
AddedIds == {2, 4, 7}

AddedTypes ==
  {NewDrone, DroneWith(<<"Forwarded">>), DroneWith(<<"Dropped", "Forwarded">>)}
    \cup {HostType(k, a) : k \in {"Client", "Server"},
                           a \in {"Unknown", "Chat", "Content", "Unwanted"}}

NextNodes == \E n \in AddedIds, node_type \in AddedTypes : RouterAddNode(n, node_type)

SpecNodes == InitRouter /\ [][NextNodes]_vars

(***************************************************************************)
(* C31: add_node(n) for an id already in the graph changes the stored node *)
(* in two cases only: the stored node is a host with app Unknown and n is  *)
(* a host of the same simple kind (n replaces it), or both are drones (the *)
(* outcomes of n are appended to the stored history).  In every other case *)
(* the stored node is unchanged; the simple kind of a known node never     *)
(* changes, and no other node changes.                                     *)
(***************************************************************************)
\* The outcomes of a history followed by the new ones, the oldest dropped
\* beyond the capacity.
Appended(history, outcomes) ==
  LET all == history \o outcomes
  IN IF Len(all) > MEMORY_SIZE
     THEN SubSeq(all, Len(all) - MEMORY_SIZE + 1, Len(all))
     ELSE all

AddsKnownNode ==
  /\ last'.op = "add_node"
  /\ HasNode(router.graph, last'.arg.id)

KnownNodeUpdated ==
  LET n      == last'.arg.id
      other  == last'.arg.node_type
      stored == router.graph.nodes[n]
      after  == router'.graph.nodes[n]
  IN /\ DOMAIN router'.graph.nodes = DOMAIN router.graph.nodes
     /\ \A k \in DOMAIN router.graph.nodes \ {n} :
          router'.graph.nodes[k] = router.graph.nodes[k]
     /\ after.kind = stored.kind
     /\ IF stored.kind # "Drone" /\ stored.app = "Unknown" /\ other.kind = stored.kind
        THEN after = other
        ELSE IF stored.kind = "Drone" /\ other.kind = "Drone"
        THEN after = [stored EXCEPT !.latest_deliveries =
                        Appended(@, other.latest_deliveries)]
        ELSE after = stored

C31_AddKnownNode == [][AddsKnownNode => KnownNodeUpdated]_vars

\* The Unknown server 4 has been replaced by a Chat server, a later node of
\* another kind or application was refused, and drone 2 has gained outcomes.
C31_Witness ==
  /\ last.op = "add_node"
  /\ last.arg.id = 4
  /\ last.arg.node_type # router.graph.nodes[4]
  /\ router.graph.nodes[4] = HostType("Server", "Chat")
  /\ router.graph.nodes[2].latest_deliveries # <<>>

(***************************************************************************)
(* C32: for a received Ack along hops the information extractor adds the   *)
(* first hop as a host of the counterpart kind of the receiving host (a    *)
(* Server for a Client, a Client for a Server), adds the interior hops as  *)
(* drones with an empty history, adds an edge for every two consecutive    *)
(* hops, and credits no delivery outcome to any drone.                     *)
(***************************************************************************)
AddedNodes(infos) == SelectSeq(infos, LAMBDA info : info.op = "AddNode")

AckExtracted(hops, self, infos) ==
  LET nodes == AddedNodes(infos)
  IN /\ Len(nodes) = Len(hops) - 1
     /\ nodes[1].id = hops[1]
     /\ nodes[1].node_type.kind = Counterpart(self.kind)
     /\ \A i \in 2..Len(nodes) : nodes[i] = AddNode(hops[i], NewDrone)
     /\ \A i \in 1..Len(nodes) : nodes[i].node_type.latest_deliveries = <<>>
     /\ SelectSeq(infos, LAMBDA info : info.op = "AddEdge") = EdgeInfos(hops)
     /\ \A i \in 1..Len(infos) : infos[i].op # "RemoveEdge"

C32_AckInformation ==
  (last.op = "update_graph" /\ last.arg.pack_type = "Ack") =>
    LET self == router.graph.nodes[router.source_id]
    IN AckExtracted(last.arg.routing_header.hops, self, get_information(last.arg, self))

(***************************************************************************)
(* update_graph on its own with Nacks of kind Dropped: the reporting drone *)
(* is next to the host, one or two drones away, or a node not yet known.   *)
(***************************************************************************)
DroppedRoutes == {<<2, 1>>, <<3, 2, 1>>, <<6, 3, 2, 1>>, <<7, 2, 1>>, <<5, 2, 1>>}

DroppedPackets ==
  {NackPacket(Header(hops, Len(hops)), SessionId(1, 0), 0, [kind |-> "Dropped"])
     : hops \in DroppedRoutes}

NextDrops == \E packet \in DroppedPackets : RouterUpdateGraph(packet)

SpecDrops == InitRouter /\ [][NextDrops]_vars

(***************************************************************************)
(* C33: after a host applies the graph updates of a Nack{Dropped} with     *)
(* hops [r, d1, ..., dk, self], the history of drone r has gained exactly  *)
(* one Dropped outcome, the history of each interior drone d1..dk has      *)
(* gained exactly one Forwarded outcome, and no outcome is credited for    *)
(* the last hop; the histories of all other drones are unchanged.          *)
(***************************************************************************)
\* The history the graph holds for a node: none for a node it does not know.
HistoryOf(g, n) == IF HasNode(g, n) THEN g.nodes[n].latest_deliveries ELSE <<>>

StoredAsHost(g, n) == HasNode(g, n) /\ g.nodes[n].kind # "Drone"

AppliesDropped ==
  /\ last'.op = "update_graph"
  /\ last'.arg.pack_type = "Nack"
  /\ last'.arg.nack_type.kind = "Dropped"

DropCredited ==
  LET hops == last'.arg.routing_header.hops
      k    == Len(hops)
  IN /\ \A i \in 1..(k - 1) :
          ~StoredAsHost(router.graph, hops[i]) =>
            /\ HasNode(router'.graph, hops[i])
            /\ router'.graph.nodes[hops[i]].kind = "Drone"
            /\ HistoryOf(router'.graph, hops[i]) =
                 Appended(HistoryOf(router.graph, hops[i]),
                          <<IF i = 1 THEN "Dropped" ELSE "Forwarded">>)
     /\ router'.graph.nodes[hops[k]] = router.graph.nodes[hops[k]]
     /\ \A n \in DOMAIN router'.graph.nodes :
          n \notin Range(SubSeq(hops, 1, k - 1)) =>
            /\ HasNode(router.graph, n)
            /\ router'.graph.nodes[n] = router.graph.nodes[n]

C33_DroppedCredited == [][AppliesDropped => DropCredited]_vars

\* Drone 6 has reported a drop twice through drones 3 and 2.
C33_Witness ==
  /\ last.op = "update_graph"
  /\ last.arg.pack_type = "Nack"
  /\ last.arg.routing_header.hops = <<6, 3, 2, 1>>
  /\ HistoryOf(router.graph, 6) = <<"Dropped", "Dropped">>
  /\ HistoryOf(router.graph, 3) = <<"Forwarded", "Forwarded">>
  /\ HistoryOf(router.graph, 1) = <<>>

(***************************************************************************)
(* Drone histories at their capacity: drone 2 starts with no history, or   *)
(* with one that is an outcome short of MEMORY_SIZE, or with a full one,   *)
(* as that many packets through it leave it; every third outcome is a      *)
(* Dropped.  Nacks of kind Dropped and add_node then record more outcomes. *)
(***************************************************************************)
Outcomes(total) ==
  [i \in 1..total |-> IF i % 3 = 0 THEN "Dropped" ELSE "Forwarded"]

StartHistories == {Outcomes(0), Outcomes(MEMORY_SIZE - 1), Outcomes(MEMORY_SIZE)}

LongHistory(history) ==
  <<AddNode(2, DroneWith(history)), AddNode(3, NodeTypeNew("Drone")),
    AddNode(4, NodeTypeNew("Server")),
    AddEdge(1, 2), AddEdge(2, 3), AddEdge(2, 4), AddEdge(3, 4)>>

InitHistory ==
  /\ kind = "Client"
  /\ id = 1
  /\ router \in {LearnedRouter("Chat", LongHistory(history), 0) :
                   history \in StartHistories}
  /\ assembler = EmptyMap
  /\ disassembler = NewDisassembler
  /\ packet_send = {2}
  /\ active = FALSE
  /\ state = "Idle"
  /\ phase = "packets"
  /\ waiting = "None"
  /\ panicked = FALSE
  /\ responses = EmptyMap
  /\ sent = <<>>
  /\ events = <<>>
  /\ ret = "none"
  /\ last = [op |-> "new", arg |-> NoMessage, waiting |-> "None"]
  /\ steps = 0
  /\ disconnected = {}
  /\ controller_recv = <<>>
  /\ game = NewGame
  /\ turn_handler = NewTurnHandler
  /\ codec = NoMessage
  /\ network = NoTraffic

NextHistory ==
  \/ \E packet \in DroppedPackets : RouterUpdateGraph(packet)
  \/ \E node \in RouterNodes : RouterAddNode(node[1], node[2])

SpecHistory == InitHistory /\ [][NextHistory]_vars

(***************************************************************************)
(* C34: in every reachable graph state the delivery history of a drone     *)
(* holds at most MEMORY_SIZE = 250 outcomes, and it is always the most     *)
(* recent min(250, number recorded) outcomes in the order they were        *)
(* recorded: recording into a full history drops the oldest.               *)
(***************************************************************************)
HistoriesBounded ==
  \A n \in DOMAIN router.graph.nodes :
    Len(router.graph.nodes[n].latest_deliveries) <= MEMORY_SIZE

\* The outcomes the step records for node n, in order.
RecordedFor(n) ==
  LET arg == last'.arg
  IN IF last'.op = "add_node"
     THEN IF arg.id = n /\ arg.node_type.kind = "Drone"
          THEN arg.node_type.latest_deliveries ELSE <<>>
     ELSE LET hops == arg.routing_header.hops
          IN IF n = hops[1] THEN <<"Dropped">>
             ELSE IF n \in Range(SubSeq(hops, 2, Len(hops) - 1)) THEN <<"Forwarded">>
             ELSE <<>>

KeepsMostRecent ==
  \A n \in DOMAIN router'.graph.nodes :
    (router'.graph.nodes[n].kind = "Drone" /\ ~StoredAsHost(router.graph, n)) =>
      HistoryOf(router'.graph, n) = Appended(HistoryOf(router.graph, n), RecordedFor(n))

C34_BoundedHistory == []HistoriesBounded /\ [][KeepsMostRecent]_vars

\* The full history of drone 2 has taken the outcomes of a lossy drone: its
\* oldest MEMORY_SIZE / 10 outcomes are gone.
C34_Witness ==
  /\ last.op = "add_node"
  /\ Len(HistoryOf(router.graph, 2)) = MEMORY_SIZE
  /\ \E before \in StartHistories :
       /\ Len(before) + Len(LossyHistory) > MEMORY_SIZE
       /\ HistoryOf(router.graph, 2) =
            SubSeq(before \o LossyHistory,
                   Len(before) + Len(LossyHistory) - MEMORY_SIZE + 1,
                   Len(before) + Len(LossyHistory))

(***************************************************************************)
(* C35: after forget_topology the graph contains exactly one node, the     *)
(* router's own with its kind and app unchanged, and no edges; the stored  *)
(* routes are empty, so can_reach is false for every id; the packet-sender *)
(* map, the assembler and the disassembler are unchanged.                  *)
(***************************************************************************)
ForgetsTopology == last'.op = "forget_topology"

OnlySelfLeft ==
  /\ DOMAIN router'.graph.nodes = {router.source_id}
  /\ router'.graph.nodes[router.source_id] = router.graph.nodes[router.source_id]
  /\ \A n \in DOMAIN router'.graph.adj : router'.graph.adj[n] = <<>>
  /\ router'.routes = <<>>
  /\ \A n \in 0..7 : ~can_reach(router', n)
  /\ packet_send' = packet_send
  /\ assembler' = assembler
  /\ disassembler' = disassembler

C35_ForgetTopology == [][ForgetsTopology => OnlySelfLeft]_vars

\* The topology was forgotten by a client that holds senders and has learned
\* routes or stored a fragment before.
C35_Witness ==
  /\ last.op = "forget_topology"
  /\ packet_send # {}
  /\ DOMAIN router.graph.nodes = {id}
  /\ assembler # EmptyMap \/ disassembler.last_session_id > 0

(***************************************************************************)
(* C36: in every reachable router state every stored route is a path of    *)
(* the current topology graph: each node id of the route is a node of the  *)
(* graph and every two consecutive hops are joined by an edge of the       *)
(* graph.                                                                  *)
(***************************************************************************)
PathOfGraph(g, route) ==
  /\ \A i \in 1..Len(route) : HasNode(g, route[i])
  /\ \A i \in 1..(Len(route) - 1) :
       HasEdge(g, route[i], route[i + 1]) /\ HasEdge(g, route[i + 1], route[i])

C36_RoutesArePaths ==
  \A i \in 1..Len(router.routes) : PathOfGraph(router.graph, router.routes[i])

(***************************************************************************)
(* The host and packets that name the host itself: a FloodResponse whose   *)
(* path_trace lists the host under each kind, a fragment and an Ack whose  *)
(* first hop is the host, and a Nack UnexpectedRecipient of the host's own *)
(* id.                                                                     *)
(***************************************************************************)
SelfPackets(k) ==
  {FloodResponsePacket(Arrived(<<4, 2, 1>>), SessionId(1, 0),
                       <<Trace(1, t), Trace(2, "Drone"), Trace(4, Counterpart(k))>>)
     : t \in {"Client", "Server", "Drone"}}
  \cup {MsgFragmentPacket(Arrived(<<1, 2, 1>>), SessionOf(k), f) : f \in InboundFragments(k)}
  \cup {AckPacket(Arrived(<<1, 2, 1>>), SessionOf(k), 0)}
  \cup {NackPacket(Arrived(<<2, 1>>), SessionOf(k), 0,
                    [kind |-> "UnexpectedRecipient", id |-> 1])}
  \cup NackPackets(k)

NextSelf ==
  \/ Run
  \/ \E packet \in SelfPackets("Client") : ClientPacket(packet)
  \/ \E command \in Commands : ClientCommand(command)
  \/ CardCalculateRoutes
  \/ \E command \in Commands : ServerCommand(command)
  \/ \E packet \in SelfPackets("Server") : ServerPacket(packet)
  \/ \E flood, routes \in BOOLEAN : ServerLoopTop(flood, routes)

SpecSelf == Init /\ [][NextSelf]_vars

(***************************************************************************)
(* C37: the router's own node keeps the kind and app it was created with:  *)
(* no received packet of any type (FloodResponses whose path_trace lists   *)
(* the host itself and Nack{UnexpectedRecipient(who)} with who equal to    *)
(* the host's own id included) and no command changes the kind or app      *)
(* stored for self in the graph.                                           *)
(***************************************************************************)
SelfKept ==
  /\ HasNode(router'.graph, id)
  /\ router'.graph.nodes[id].kind = router.graph.nodes[id].kind
  /\ router'.graph.nodes[id].app = router.graph.nodes[id].app

C37_SelfNodeKept == [][SelfKept]_vars

(***************************************************************************)
(* C38: after a host has handled Ack(s, i), a later Nack{Dropped} or       *)
(* Nack{ErrorInRouting} for the same (s, i), or for a session the host     *)
(* never sent, causes no MsgFragment to be sent and leaves the             *)
(* disassembler unchanged, with the host (client or server) still running. *)
(* The Nacks name fragment 0, so the disassembler retains no fragment      *)
(* (s, 0) exactly when the host never sent s or an Ack(s, 0) removed it.   *)
(***************************************************************************)
HandlesStaleNack ==
  /\ HandlesPacket("Nack")
  /\ last'.arg.nack_type.kind \in {"Dropped", "ErrorInRouting"}
  /\ ~HasFragment(disassembler, last'.arg.session_id, last'.arg.fragment_index)

StaleNackIgnored ==
  /\ SentOfType("MsgFragment")' = <<>>
  /\ disassembler' = disassembler
  /\ ~panicked'

C38_StaleNackIgnored == [][HandlesStaleNack => StaleNackIgnored]_vars

(***************************************************************************)
(* C39: once a host has handled the Crash command it handles no further    *)
(* command or inbound packet and emits no further packet or event, even    *)
(* when more commands and packets were already queued on its channels at   *)
(* that moment.  (A host whose run() is called again is left to C13.)      *)
(***************************************************************************)
NothingHandled == UNCHANGED <<steps, last, sent, events>>

C39_CrashIsFinal == [][Stopping => NothingHandled]_vars

(***************************************************************************)
(* C40: in every reachable TurnHandler state with at least one subscribed  *)
(* node, current_turn is a valid index into the subscriber list            *)
(* (current_turn < number of subscribers), so current_turn() never reads   *)
(* out of bounds and yield_turn never divides by zero (no card thread      *)
(* panics holding the lock), for every interleaving of subscribe,          *)
(* unsubscribe, yield_turn and current_turn by the card threads.           *)
(***************************************************************************)
C40_CurrentTurnValid ==
  /\ turn_handler.nodes # <<>> => CurrentTurnInBounds(turn_handler)
  /\ ~turn_handler.poisoned

====
